---------------------------- MODULE Spec2Model ----------------------------
(***************************************************************************)
(* A model of the FHE field-encryption service: the mock ciphertext        *)
(* engine (utils: src/unnamed/part_000, lines 1-387), its constants        *)
(* (src/unnamed/part_000, lines 388-651) and the NestJS service that       *)
(* drives it (src/unnamed/part_001).                                       *)
(*                                                                         *)
(* JavaScript objects are modelled as TLA+ records whose DOMAIN is the set *)
(* of properties the object has: an absent property is an absent field,    *)
(* and the object spread {...x, f: v} is the record override  [f |-> v]    *)
(* @@ x.  A Uint8Array is a sequence of numbers in 0..255 (index i of the  *)
(* code is index i+1 of the sequence).  A JavaScript number that carries a *)
(* noise level is an exact rational <<numerator, denominator>> in lowest   *)
(* terms, so that 3.2, 1.1 and 2.5 are what the source says they are.      *)
(***************************************************************************)
EXTENDS Integers, Sequences, FiniteSets, TLC

(***************************************************************************)
(* Bounds of the model.                                                    *)
(***************************************************************************)
MaxLen == 2
MaxDepth == 1

(***************************************************************************)
(* Arithmetic helpers.                                                     *)
(***************************************************************************)
Max(a, b) == IF a >= b THEN a ELSE b

Abs(a) == IF a < 0 THEN 0 - a ELSE a

RECURSIVE GCD(_, _)
GCD(a, b) == IF b = 0 THEN a ELSE GCD(b, a % b)

\* A rational in lowest terms with a positive denominator.
Rat(n, d) ==
    LET g == GCD(Abs(n), d)
    IN  <<n \div g, d \div g>>

RAdd(x, y) == Rat(x[1] * y[2] + y[1] * x[2], x[2] * y[2])

RMul(x, y) == Rat(x[1] * y[1], x[2] * y[2])

RLt(x, y) == x[1] * y[2] < y[1] * x[2]

\* Bitwise exclusive or of two non-negative integers (the ^ of the source).
RECURSIVE Xor(_, _)
Xor(a, b) ==
    IF a = 0 /\ b = 0 THEN 0
    ELSE (((a % 2) + (b % 2)) % 2) + 2 * Xor(a \div 2, b \div 2)

\* Element i (0-based, as in the source) of a byte array.
At(s, i) == s[i + 1]

\* ethers.utils.concat of two byte arrays.
Concat(s, t) == s \o t

RECURSIVE SumSeq(_)
SumSeq(s) == IF s = <<>> THEN 0 ELSE Head(s) + SumSeq(Tail(s))

(***************************************************************************)
(* FHE_CONSTANTS.                                                          *)
(***************************************************************************)
BASE_NOISE == Rat(32, 10)

MAX_NOISE_LEVEL == Rat(100, 1)

NOISE_GROWTH_ADD == Rat(11, 10)

NOISE_GROWTH_MULTIPLY == Rat(25, 10)

NOISE_GROWTH_ROTATE == Rat(12, 10)

MAX_CIPHERTEXT_SIZE == 3

MAX_CIRCUIT_DEPTH == 20

\* Length of the keystream made by generateNoise, and of a keccak256 digest.
NOISE_LEN == 32

TAG_LEN == 32

(***************************************************************************)
(* The utils: encryption and decryption.                                   *)
(***************************************************************************)

\* Bytes the model draws plaintexts and payloads from.
ByteSample == {1, 200}

\* All byte arrays of length 0..n over ByteSample.
ByteSeqs(n) == UNION {[1..k -> ByteSample] : k \in 0..n}

\* A stand-in for keccak256: a deterministic 32-byte digest of the input.
\* (The digest is stored by encryptValue and read by nobody.)
Keccak256(bytes) ==
    [i \in 1..TAG_LEN |-> (SumSeq(bytes) + 31 * Len(bytes) + i) % 256]

\* One keystream that repeats the byte c, and one that counts 0,1,2,3,0,...
ConstStream(c) == [i \in 1..NOISE_LEN |-> c]

RampStream == [i \in 1..NOISE_LEN |-> (i - 1) % 4]

\* generateNoise(stdDev): 32 bytes, each |floor(z0 * stdDev)| % 256 for a
\* fresh Box-Muller draw z0 from Math.random().  The result is whatever the
\* random source gives: a choice among keystreams.  With stdDev = 0 every
\* byte is 0 (NaN and -0 are stored as 0 in a Uint8Array).
generateNoise(stdDev) ==
    IF stdDev[1] = 0 THEN {ConstStream(0)}
    ELSE {ConstStream(0), ConstStream(1), ConstStream(5), RampStream}

\* encryptValue(tfheInstance, context, value, noiseStdDev), with the keystream
\* that its call of generateNoise returned.
encryptValue(value, noiseStdDev, noise) ==
    LET body == [i \in 1..Len(value) |->
                    Xor(value[i], At(noise, (i - 1) % Len(noise)))]
        tag  == Keccak256(Concat(value, noise))
    IN  [data  |-> body \o tag,
         noise |-> noiseStdDev,
         depth |-> 0,
         size  |-> 2]

\* decryptValue(tfheInstance, context, ciphertext), with the keystream that its
\* own call of generateNoise(ciphertext.noise) returned.  new Uint8Array of a
\* negative length throws a RangeError.
decryptValue(ciphertext, noise) ==
    LET data           == ciphertext.data
        originalLength == Len(data) - 32
    IN  IF originalLength < 0 THEN [err |-> "RangeError"]
        ELSE [err |-> "none",
              value |-> [i \in 1..originalLength |->
                            Xor(data[i], At(noise, (i - 1) % Len(noise)))]]

(***************************************************************************)
(* The utils: homomorphic operations on ciphertext objects.                *)
(***************************************************************************)

\* The element-wise loop of performHomomorphicAdd: result[i] for 0 <= i <
\* max(a.data.length, b.data.length).
AddLoop(a, b) ==
    [k \in 1..Max(Len(a.data), Len(b.data)) |->
        LET i    == k - 1
            aVal == IF i < Len(a.data) THEN At(a.data, i) ELSE 0
            bVal == IF i < Len(b.data) THEN At(b.data, i) ELSE 0
        IN  (aVal + bVal) % 256]

\* A variant that takes the result's size from the second operand.
performHomomorphicAdd_SizeOfB(a, b) ==
    [data  |-> AddLoop(a, b),
     noise |-> RAdd(RAdd(a.noise, b.noise), NOISE_GROWTH_ADD),
     depth |-> Max(a.depth, b.depth),
     size  |-> b.size]

performHomomorphicAdd(a, b) ==
    [data  |-> AddLoop(a, b),
     noise |-> RAdd(RAdd(a.noise, b.noise), NOISE_GROWTH_ADD),
     depth |-> Max(a.depth, b.depth),
     size  |-> a.size]

\* The nested loops of performHomomorphicMultiply, from the iteration (i, j)
\* on, with `result` the array as the earlier iterations left it.
RECURSIVE MultiplyLoop(_, _, _, _, _)
MultiplyLoop(a, b, i, j, result) ==
    IF i >= Len(a) THEN result
    ELSE IF j >= Len(b) THEN MultiplyLoop(a, b, i + 1, 0, result)
    ELSE MultiplyLoop(a, b, i, j + 1,
            [result EXCEPT ![i + j + 1] = (@ + At(a, i) * At(b, j)) % 256])

\* A variant that counts the depth from the first operand alone.
performHomomorphicMultiply_DepthOfA(a, b) ==
    [data  |-> MultiplyLoop(a.data, b.data, 0, 0,
                            [k \in 1..(Len(a.data) + Len(b.data)) |-> 0]),
     noise |-> RMul(RMul(a.noise, b.noise), NOISE_GROWTH_MULTIPLY),
     depth |-> a.depth + 1,
     size  |-> a.size + b.size]

performHomomorphicMultiply(a, b) ==
    [data  |-> MultiplyLoop(a.data, b.data, 0, 0,
                            [k \in 1..(Len(a.data) + Len(b.data)) |-> 0]),
     noise |-> RMul(RMul(a.noise, b.noise), NOISE_GROWTH_MULTIPLY),
     depth |-> Max(a.depth, b.depth) + 1,
     size  |-> a.size + b.size]

\* The value `undefined`.
Undefined == [undefined |-> TRUE]

IsUndefined(x) == "undefined" \in DOMAIN x

\* The properties {...x} copies: none when x is undefined.
Spread(x) == IF IsUndefined(x) THEN <<>> ELSE x

\* A variant that refreshes the noise and leaves the depth as it was.
bootstrapCiphertext_KeepsDepth(ciphertext) ==
    [noise |-> BASE_NOISE, bootstrapped |-> TRUE] @@ Spread(ciphertext)

\* bootstrapCiphertext: {...ciphertext, noise: BASE_NOISE, depth: 0,
\* bootstrapped: true}.
bootstrapCiphertext(ciphertext) ==
    [noise |-> BASE_NOISE, depth |-> 0, bootstrapped |-> TRUE]
        @@ Spread(ciphertext)

\* The % of the source: the remainder has the sign of the dividend.
JsRem(a, n) == IF a >= 0 THEN a % n ELSE 0 - ((0 - a) % n)

\* negateMockValue: {...value, data: negated, noise: value.noise * ADD}.
negateMockValue(value) ==
    [data  |-> [i \in 1..Len(value.data) |-> (256 - value.data[i]) % 256],
     noise |-> RMul(value.noise, NOISE_GROWTH_ADD)] @@ value

\* The loop of rotateMockValue from index i on.  A store at a negative index
\* of a Uint8Array stores nothing.
RECURSIVE RotateLoop(_, _, _, _)
RotateLoop(data, normalizedAmount, i, rotated) ==
    IF i >= Len(data) THEN rotated
    ELSE LET target == JsRem(i + normalizedAmount, Len(data))
         IN  RotateLoop(data, normalizedAmount, i + 1,
                IF target >= 0
                THEN [rotated EXCEPT ![target + 1] = At(data, i)]
                ELSE rotated)

\* rotateMockValue: {...value, data: rotated, noise: value.noise * ROTATE}.
\* With an empty payload amount % 0 is NaN and the loop does not run.
rotateMockValue(value, amount) ==
    LET n == Len(value.data)
        normalizedAmount == IF n = 0 THEN 0 ELSE JsRem(amount, n)
    IN  [data  |-> RotateLoop(value.data, normalizedAmount, 0,
                              [i \in 1..n |-> 0]),
         noise |-> RMul(value.noise, NOISE_GROWTH_ROTATE)] @@ value

\* relinearizeMockValue: {...value, size: 2, relinearized: true}.
relinearizeMockValue(value) ==
    [size |-> 2, relinearized |-> TRUE] @@ value

\* modulusSwitch(ciphertext, fromModulus, toModulus): scaleFactor is
\* toModulus / fromModulus; {...ciphertext, data: scaled, noise: noise *
\* scaleFactor}, scaled[i] being floor(data[i] * scaleFactor) % 256.
modulusSwitch(ciphertext, fromModulus, toModulus) ==
    [data  |-> [i \in 1..Len(ciphertext.data) |->
                  ((ciphertext.data[i] * toModulus) \div fromModulus) % 256],
     noise |-> RMul(ciphertext.noise, Rat(toModulus, fromModulus))]
        @@ ciphertext

\* FHE_CONSTANTS.NOISE_GROWTH_FACTORS.
NOISE_GROWTH_FACTORS ==
    [ADD      |-> NOISE_GROWTH_ADD,
     MULTIPLY |-> NOISE_GROWTH_MULTIPLY,
     ROTATE   |-> NOISE_GROWTH_ROTATE,
     NEGATE   |-> Rat(105, 100),
     BOOTSTRAP |-> Rat(1, 10)]

\* operation.toUpperCase(), for the operation tags the model uses.
ToUpperCase(operation) ==
    CASE operation = "add"       -> "ADD"
      [] operation = "subtract"  -> "SUBTRACT"
      [] operation = "multiply"  -> "MULTIPLY"
      [] operation = "rotate"    -> "ROTATE"
      [] operation = "negate"    -> "NEGATE"
      [] operation = "bootstrap" -> "BOOTSTRAP"
      [] OTHER                   -> "DIVIDE"

\* Math.max(...inputNoise) of a non-empty list of numbers.
RMaxOf(numbers) ==
    CHOOSE m \in {numbers[k] : k \in 1..Len(numbers)} :
        \A k \in 1..Len(numbers) : ~RLt(m, numbers[k])

\* inputNoise.reduce((a, b) => a * b, 1).
RECURSIVE RProduct(_)
RProduct(numbers) ==
    IF numbers = <<>> THEN Rat(1, 1)
    ELSE RMul(Head(numbers), RProduct(Tail(numbers)))

\* A variant of the estimator that adds the factor for a rotation.
estimateNoiseGrowthOf_RotateAdds(operation, inputNoise) ==
    LET key      == ToUpperCase(operation)
        factor   == IF key \in DOMAIN NOISE_GROWTH_FACTORS
                    THEN NOISE_GROWTH_FACTORS[key] ELSE Rat(1, 1)
        maxInput == RMaxOf(inputNoise)
    IN  CASE operation \in {"add", "subtract"} -> RAdd(maxInput, factor)
          [] operation = "multiply" -> RMul(RProduct(inputNoise), factor)
          [] operation = "rotate"   -> RAdd(maxInput, factor)
          [] OTHER                  -> maxInput

\* estimateNoiseGrowth(operation, inputNoise) of the utils, for a non-empty
\* inputNoise.  factor is NOISE_GROWTH_FACTORS[operation.toUpperCase()] || 1.
estimateNoiseGrowthOf(operation, inputNoise) ==
    LET key      == ToUpperCase(operation)
        factor   == IF key \in DOMAIN NOISE_GROWTH_FACTORS
                    THEN NOISE_GROWTH_FACTORS[key] ELSE Rat(1, 1)
        maxInput == RMaxOf(inputNoise)
    IN  CASE operation \in {"add", "subtract"} -> RAdd(maxInput, factor)
          [] operation = "multiply" -> RMul(RProduct(inputNoise), factor)
          [] operation = "rotate"   -> RMul(maxInput, factor)
          [] OTHER                  -> maxInput

(***************************************************************************)
(* The utils: serialization.  A hex string is the sequence of its digits   *)
(* after "0x"; the JSON text is the record of its properties; the base64   *)
(* text of a JSON text is that record under the property `base64`.         *)
(***************************************************************************)
\* x.f for an object x: undefined when it has no such property.
Prop(x, f) == IF f \in DOMAIN x THEN x[f] ELSE Undefined

\* ethers.utils.hexlify of a byte array: two digits per byte, high first.
Hexlify(bytes) ==
    [hex |-> [k \in 1..(2 * Len(bytes)) |->
                IF k % 2 = 1 THEN bytes[(k + 1) \div 2] \div 16
                ELSE bytes[k \div 2] % 16]]

IsHexString(x) == "hex" \in DOMAIN x /\ Len(x.hex) % 2 = 0

\* ethers.utils.arrayify of a hex string with an even number of digits.
Arrayify(x) ==
    [k \in 1..(Len(x.hex) \div 2) |-> 16 * x.hex[2 * k - 1] + x.hex[2 * k]]

\* A variant of serializeCiphertext that always writes bootstrapped: false.
serializeCiphertext_DropsBootstrapped(ciphertext) ==
    IF IsUndefined(ciphertext) THEN [err |-> "TypeError"]
    ELSE IF ~("data" \in DOMAIN ciphertext)
    THEN [err |-> "invalid hexlify value"]
    ELSE LET serialized ==
                 [data  |-> Hexlify(ciphertext.data),
                  depth |-> IF "depth" \in DOMAIN ciphertext
                            THEN ciphertext.depth ELSE 0,
                  size  |-> IF "size" \in DOMAIN ciphertext
                               /\ ciphertext.size # 0
                            THEN ciphertext.size ELSE 2,
                  bootstrapped |-> FALSE]
                 @@ (IF "noise" \in DOMAIN ciphertext
                     THEN [noise |-> ciphertext.noise] ELSE <<>>)
         IN  [err |-> "none", value |-> [base64 |-> serialized]]

\* serializeCiphertext(ciphertext).  ciphertext.data of undefined is a
\* TypeError, and hexlify(undefined) throws as well.  JSON.stringify leaves
\* out a property whose value is undefined.
serializeCiphertext(ciphertext) ==
    IF IsUndefined(ciphertext) THEN [err |-> "TypeError"]
    ELSE IF ~("data" \in DOMAIN ciphertext)
    THEN [err |-> "invalid hexlify value"]
    ELSE LET serialized ==
                 [data  |-> Hexlify(ciphertext.data),
                  depth |-> IF "depth" \in DOMAIN ciphertext
                            THEN ciphertext.depth ELSE 0,
                  size  |-> IF "size" \in DOMAIN ciphertext
                               /\ ciphertext.size # 0
                            THEN ciphertext.size ELSE 2,
                  bootstrapped |-> IF "bootstrapped" \in DOMAIN ciphertext
                                   THEN ciphertext.bootstrapped ELSE FALSE]
                 @@ (IF "noise" \in DOMAIN ciphertext
                     THEN [noise |-> ciphertext.noise] ELSE <<>>)
         IN  [err |-> "none", value |-> [base64 |-> serialized]]

\* deserializeCiphertext(serialized): whatever base64.decode, toUtf8String,
\* JSON.parse or arrayify throws becomes 'Failed to deserialize ciphertext'.
\* A property the record lacks is undefined in the result.
deserializeCiphertext(serialized) ==
    IF /\ "base64" \in DOMAIN serialized
       /\ "data" \in DOMAIN serialized.base64
       /\ IsHexString(serialized.base64.data)
    THEN LET parsed == serialized.base64
         IN  [err |-> "none",
              value |-> [data |-> Arrayify(parsed.data)]
                        @@ [f \in DOMAIN parsed
                                  \cap {"noise", "depth", "size", "bootstrapped"}
                              |-> parsed[f]]]
    ELSE [err |-> "Failed to deserialize ciphertext"]

(***************************************************************************)
(* State.                                                                  *)
(***************************************************************************)
VARIABLES
    opA,      \* engine: the first operand ciphertext
    opB,      \* engine: the second operand ciphertext
    res,      \* engine and codec: the ciphertext the last operation returned
    arg,      \* engine: the operand of the last unary operation
    last,     \* engine and codec: the last operation applied
    msg,      \* codec: the plaintext given to the last encryptValue
    plain,    \* codec: what the last decryptValue returned
    values,   \* packing: the buffers given to the last packValues
    packed,   \* packing: the buffer the last packValues returned
    unpacked, \* packing: what the last unpackValues returned
    keyCache,          \* service: this.keyCache, cache key -> FheKeyPair
    bootstrappingKeys, \* service: this.bootstrappingKeys, cache key -> key
    keyStore,          \* user repository: wallet address -> stored key row
    calls,             \* the calls in flight: where each one is suspended
    genLog,            \* the key generations performed so far, in order
    nextKey,           \* the number of random key draws made so far
    users,             \* user repository: user id -> wallet address, or ""
    request,           \* service: the request being served, or the last one
    response,          \* service: what the last request returned or threw
    exec,              \* service: the locals of the executeCircuit in progress
    wireIn,            \* serialization: the ciphertext given to serialize
    wire,              \* serialization: the string serialize returned
    wireOut,           \* serialization: what deserialize returned
    mem,               \* objects: the ciphertext objects and their arrays
    opLog,             \* objects: the last operation, and mem before it
    est,               \* estimator: a call of estimateNoiseGrowth, its result
    boot,              \* start-up: initializeFheSystem, this.tfheInstance, callers
    now,               \* key lookup: the clock, Date.now()
    cachedAt           \* key lookup: when each cache entry was last inserted

engineVars == <<opA, opB, arg>>

codecVars == <<msg, plain>>

packVars == <<values, packed, unpacked>>

keyVars == <<keyCache, bootstrappingKeys, keyStore, calls, genLog, nextKey>>

svcVars == <<users, request, response, exec>>

wireVars == <<wireIn, wire, wireOut>>

memVars == <<mem, opLog>>

clockVars == <<now, cachedAt>>

vars == <<opA, opB, res, arg, last, msg, plain, packVars, keyVars, svcVars,
          wireVars, memVars, est, boot, clockVars>>

\* "No ciphertext": the value of a variable that holds no object yet.
NoCt == [none |-> TRUE]

IsCt(x) == "data" \in DOMAIN x

\* Noise levels the model gives to operand ciphertexts: the base noise, and
\* one large enough for a single operation to pass MAX_NOISE_LEVEL.
NoiseSample == {BASE_NOISE, Rat(60, 1)}

SizeSample == {2, 3}

\* Operand ciphertexts: objects with the four properties encryptValue,
\* performHomomorphicAdd and performHomomorphicMultiply give their results.
CtSample ==
    {[data |-> d, noise |-> n, depth |-> k, size |-> s] :
        d \in ByteSeqs(MaxLen), n \in NoiseSample,
        k \in 0..MaxDepth, s \in SizeSample}

CodecIdle ==
    /\ msg = <<>>
    /\ plain = [err |-> "unset"]

MemIdle ==
    /\ mem = [bufs |-> <<>>, objs |-> <<>>]
    /\ opLog = [op |-> "none"]
    /\ est = [operation |-> "none"]

WireIdle ==
    /\ wireIn = NoCt
    /\ wire = [err |-> "unset"]
    /\ wireOut = [err |-> "unset"]

\* No service has been constructed.
BootIdle == boot = [init |-> "none"]

ClockIdle ==
    /\ now = 0
    /\ cachedAt = <<>>

PackIdle ==
    /\ values = <<>>
    /\ packed = <<>>
    /\ unpacked = [err |-> "unset"]

\* The bound on the number of calls in flight.
MaxCalls == 2

\* A Map with no entries.
EmptyMap == <<>>

\* A call slot nobody has used yet.  servedAge is the age, in milliseconds,
\* of the cache entry the call was served, and -1 when it was served none;
\* log is what the call has done so far, in order.
IdleCall ==
    [pc |-> "idle", kind |-> "none", id |-> "none", scheme |-> "none",
     tmp |-> [none |-> TRUE], result |-> [none |-> TRUE], servedAge |-> -1,
     log |-> <<>>]

KeysIdle ==
    /\ keyCache = EmptyMap
    /\ bootstrappingKeys = EmptyMap
    /\ keyStore = EmptyMap
    /\ calls = [c \in 1..MaxCalls |-> IdleCall]
    /\ genLog = <<>>
    /\ nextKey = 0

\* The user repository's answers: "u1" has a wallet, "ghost" has none.
UsersWith(systemWallet) ==
    [u \in {"u1", "ghost", "system"} |->
        CASE u = "u1" -> "0xw1"
          [] u = "ghost" -> ""
          [] OTHER -> systemWallet]

\* No executeCircuit is in progress.
NoExec == [pc |-> "idle"]

ServiceIdle ==
    /\ users = UsersWith("")
    /\ request = [handler |-> "none"]
    /\ response = [err |-> "unset"]
    /\ exec = NoExec

EngineIdle ==
    /\ opA = NoCt
    /\ opB = NoCt
    /\ res = NoCt
    /\ arg = NoCt
    /\ last = "none"

(***************************************************************************)
(* The engine: operations applied to operand ciphertexts.                  *)
(***************************************************************************)
EngineInit ==
    /\ opA \in CtSample
    /\ opB \in CtSample
    /\ res = NoCt
    /\ arg = NoCt
    /\ last = "none"
    /\ CodecIdle
    /\ PackIdle
    /\ KeysIdle
    /\ WireIdle
    /\ BootIdle
    /\ ClockIdle
    /\ MemIdle
    /\ ServiceIdle

\* What no operation of the engine touches.
EngineFrame ==
    UNCHANGED <<opA, opB, codecVars, packVars, keyVars, svcVars, wireVars,
                memVars, est, boot, clockVars>>

Add ==
    /\ res' = performHomomorphicAdd(opA, opB)
    /\ last' = "add"
    /\ arg' = NoCt
    /\ EngineFrame

Multiply ==
    /\ res' = performHomomorphicMultiply(opA, opB)
    /\ last' = "multiply"
    /\ arg' = NoCt
    /\ EngineFrame

\* bootstrapCiphertext applied to the first operand, or to the result of the
\* operation before (which may itself be a bootstrap).
Bootstrap ==
    /\ \E x \in {opA} \cup (IF IsCt(res) THEN {res} ELSE {}) :
          /\ arg' = x
          /\ res' = bootstrapCiphertext(x)
    /\ last' = "bootstrap"
    /\ EngineFrame

EngineNext ==
    \/ Add
    \/ Multiply
    \/ Bootstrap

SpecEngine == EngineInit /\ [][EngineNext]_vars

(***************************************************************************)
(* The codec: encryptValue and decryptValue.                               *)
(***************************************************************************)
\* Standard deviations given to encryptValue: 0, and the 3.2 every scheme's
\* noiseStandardDeviation is set to.
SigmaSample == {Rat(0, 1), BASE_NOISE}

CodecInit ==
    /\ EngineIdle
    /\ CodecIdle
    /\ PackIdle
    /\ KeysIdle
    /\ WireIdle
    /\ BootIdle
    /\ ClockIdle
    /\ MemIdle
    /\ ServiceIdle

\* What neither encryptValue nor decryptValue touches.
CodecFrame == UNCHANGED <<engineVars, packVars, keyVars, svcVars, wireVars,
                memVars, est, boot, clockVars>>

Encrypt ==
    /\ \E value \in ByteSeqs(MaxLen), noiseStdDev \in SigmaSample :
         \E noise \in generateNoise(noiseStdDev) :
            /\ res' = encryptValue(value, noiseStdDev, noise)
            /\ msg' = value
    /\ last' = "encrypt"
    /\ plain' = [err |-> "unset"]
    /\ CodecFrame

\* decryptValue of the ciphertext encryptValue returned; its generateNoise
\* draws anew.
Decrypt ==
    /\ last = "encrypt"
    /\ \E noise \in generateNoise(res.noise) :
          plain' = decryptValue(res, noise)
    /\ last' = "decrypt"
    /\ UNCHANGED <<res, msg>>
    /\ CodecFrame

CodecNext ==
    \/ Encrypt
    \/ Decrypt

SpecCodec == CodecInit /\ [][CodecNext]_vars

(***************************************************************************)
(* The utils: packing several buffers into one.                            *)
(***************************************************************************)
MaxCount == 2

Min(a, b) == IF a <= b THEN a ELSE b

\* (n >> bits) & 0xff for a length n below 2^31.
ShiftRightByte(n, bits) ==
    LET pow == CASE bits = 24 -> 16777216
                 [] bits = 16 -> 65536
                 [] bits = 8  -> 256
                 [] OTHER     -> 1
    IN  (n \div pow) % 256

\* A variant of the header writer that stores the low byte first.
WriteLength_LittleEndian(buffer, offset, length) ==
    [buffer EXCEPT ![offset + 1] = ShiftRightByte(length, 0),
                   ![offset + 2] = ShiftRightByte(length, 8),
                   ![offset + 3] = ShiftRightByte(length, 16),
                   ![offset + 4] = ShiftRightByte(length, 24)]

\* packed[offset .. offset+3] = the four bytes of value.length, high first.
WriteLength(buffer, offset, length) ==
    [buffer EXCEPT ![offset + 1] = ShiftRightByte(length, 24),
                   ![offset + 2] = ShiftRightByte(length, 16),
                   ![offset + 3] = ShiftRightByte(length, 8),
                   ![offset + 4] = ShiftRightByte(length, 0)]

\* Uint8Array.prototype.set(value, offset).
SetAt(buffer, value, offset) ==
    [k \in 1..Len(buffer) |->
        IF k > offset /\ k <= offset + Len(value)
        THEN value[k - offset] ELSE buffer[k]]

\* The for-of loop of packValues from the buffer number idx on.
RECURSIVE PackLoop(_, _, _, _)
PackLoop(vals, idx, offset, buffer) ==
    IF idx > Len(vals) THEN buffer
    ELSE LET value == vals[idx]
         IN  PackLoop(vals, idx + 1, offset + 4 + Len(value),
                      SetAt(WriteLength(buffer, offset, Len(value)),
                            value, offset + 4))

packValues(vals) ==
    LET totalLength == SumSeq([k \in 1..Len(vals) |-> Len(vals[k]) + 4])
    IN  PackLoop(vals, 1, 0, [k \in 1..totalLength |-> 0])

\* packed[i] inside a bitwise expression: a read past the end is undefined,
\* which | and << take as 0.
ByteOrZero(buffer, i) ==
    IF i >= 0 /\ i < Len(buffer) THEN At(buffer, i) ELSE 0

\* (b0 << 24) | (b1 << 16) | (b2 << 8) | b3 as a signed 32-bit integer.
ReadLength(buffer, offset) ==
    LET b0 == ByteOrZero(buffer, offset)
        b1 == ByteOrZero(buffer, offset + 1)
        b2 == ByteOrZero(buffer, offset + 2)
        b3 == ByteOrZero(buffer, offset + 3)
    IN  (IF b0 >= 128 THEN b0 - 256 ELSE b0) * 16777216
          + b1 * 65536 + b2 * 256 + b3

\* Uint8Array.prototype.slice(start, end): negative indexes count from the
\* end, and both are clamped to the buffer.
Slice(buffer, start, end) ==
    LET n    == Len(buffer)
        from == IF start < 0 THEN Max(n + start, 0) ELSE Min(start, n)
        to   == IF end < 0 THEN Max(n + end, 0) ELSE Min(end, n)
    IN  IF from < to THEN SubSeq(buffer, from + 1, to) ELSE <<>>

\* The while loop of unpackValues from `offset` on, `vals` being what was
\* pushed so far.  The loop's next step depends on the offset alone, so a
\* loop that comes back to an offset it has seen never ends: it pushes values
\* until the process runs out of memory.
RECURSIVE UnpackLoop(_, _, _, _)
UnpackLoop(buffer, offset, vals, seen) ==
    IF ~(offset < Len(buffer)) THEN [err |-> "none", values |-> vals]
    ELSE IF offset \in seen THEN [err |-> "diverges"]
    ELSE LET length == ReadLength(buffer, offset)
             value  == Slice(buffer, offset + 4, offset + 4 + length)
         IN  UnpackLoop(buffer, offset + 4 + length, Append(vals, value),
                        seen \cup {offset})

unpackValues(buffer) == UnpackLoop(buffer, 0, <<>>, {})

\* Sequences of at most n buffers.
BufferSeqs(n) == UNION {[1..k -> ByteSeqs(MaxLen)] : k \in 0..n}

PackInit ==
    /\ EngineIdle
    /\ CodecIdle
    /\ PackIdle
    /\ KeysIdle
    /\ WireIdle
    /\ BootIdle
    /\ ClockIdle
    /\ MemIdle
    /\ ServiceIdle

PackFrame ==
    UNCHANGED <<engineVars, res, codecVars, keyVars, svcVars, wireVars,
                memVars, est, boot, clockVars>>

Pack ==
    /\ \E vals \in BufferSeqs(MaxCount) :
          /\ values' = vals
          /\ packed' = packValues(vals)
    /\ unpacked' = [err |-> "unset"]
    /\ last' = "pack"
    /\ PackFrame

Unpack ==
    /\ last = "pack"
    /\ unpacked' = unpackValues(packed)
    /\ last' = "unpack"
    /\ UNCHANGED <<values, packed>>
    /\ PackFrame

\* The buffers unpackValues is handed by a caller that did not pack them
\* itself: what packValues emits, cut off after any number of bytes.
ReceivedBuffers ==
    UNION {{SubSeq(whole, 1, n) : n \in 0..Len(whole)} :
              whole \in {packValues(vals) : vals \in BufferSeqs(MaxCount)}}

\* unpackValues applied to a buffer received from elsewhere.
UnpackReceived ==
    /\ \E buffer \in ReceivedBuffers :
          /\ packed' = buffer
          /\ unpacked' = unpackValues(buffer)
    /\ values' = <<>>
    /\ last' = "unpackReceived"
    /\ PackFrame

PackNext ==
    \/ Pack
    \/ Unpack
    \/ UnpackReceived

SpecPack == PackInit /\ [][PackNext]_vars

(***************************************************************************)
(* Serialization: serializeCiphertext and deserializeCiphertext.           *)
(***************************************************************************)
\* The ciphertexts handed to serializeCiphertext: the operand ciphertexts,
\* with the bootstrapped property bootstrapCiphertext adds.
WireCtSample ==
    {[bootstrapped |-> b] @@ c : b \in BOOLEAN, c \in CtSample}

\* JSON texts of records that lack some of the five properties, a text that
\* is no JSON and a string that is no base64, as deserializeCiphertext may be
\* handed them.
MalformedSample ==
    LET whole == [data |-> Hexlify(<<1, 200>>), noise |-> BASE_NOISE,
                  depth |-> 0, size |-> 2, bootstrapped |-> FALSE]
    IN  {[base64 |-> [f \in DOMAIN whole \ {g} |-> whole[f]]] : g \in DOMAIN whole}
        \cup {[base64 |-> [data |-> whole.data]],
              [base64 |-> [text |-> "not json"]],
              [text |-> "not base64"]}

WireInit ==
    /\ EngineIdle
    /\ CodecIdle
    /\ PackIdle
    /\ KeysIdle
    /\ ServiceIdle
    /\ WireIdle
    /\ BootIdle
    /\ ClockIdle
    /\ MemIdle

WireFrame ==
    UNCHANGED <<engineVars, res, last, codecVars, packVars, keyVars, svcVars,
                memVars, est, boot, clockVars>>

Serialize ==
    /\ \E c \in WireCtSample :
          /\ wireIn' = c
          /\ wire' = serializeCiphertext(c)
    /\ wireOut' = [err |-> "unset"]
    /\ WireFrame

\* A string arrives that serializeCiphertext did not write.
ReceiveSerialized ==
    /\ \E str \in MalformedSample :
          wire' = [err |-> "none", value |-> str]
    /\ wireIn' = NoCt
    /\ wireOut' = [err |-> "unset"]
    /\ WireFrame

Deserialize ==
    /\ wire.err = "none"
    /\ wireOut.err = "unset"
    /\ wireOut' = deserializeCiphertext(wire.value)
    /\ UNCHANGED <<wireIn, wire>>
    /\ WireFrame

WireNext ==
    \/ Serialize
    \/ ReceiveSerialized
    \/ Deserialize

SpecWire == WireInit /\ [][WireNext]_vars

(***************************************************************************)
(* Ciphertext objects and their arrays.  mem.bufs holds the Uint8Arrays    *)
(* allocated so far and mem.objs the ciphertext objects, whose data        *)
(* property is the number of an array: two objects built by a spread share *)
(* one array.  Payloads are kept to MaxLen bytes.                          *)
(***************************************************************************)
\* The bound on the number of ciphertext objects.
MaxObjs == 3

\* The object number i, with its array's bytes in the place of the array.
View(m, i) == [m.objs[i] EXCEPT !.data = m.bufs[m.objs[i].data]]

\* A returned object whose data is an array the operation allocated.
NewObject(m, r) ==
    [bufs |-> Append(m.bufs, r.data),
     objs |-> Append(m.objs, [r EXCEPT !.data = Len(m.bufs) + 1])]

\* A returned object whose data is the array of the object number i, which
\* {...value} copied the reference of.
SharedObject(m, i, r) ==
    [bufs |-> m.bufs,
     objs |-> Append(m.objs, [r EXCEPT !.data = m.objs[i].data])]

\* performHomomorphicAdd and performHomomorphicMultiply fill a new
\* Uint8Array and return a new object.
AddInMemory(m, i, j) ==
    NewObject(m, performHomomorphicAdd(View(m, i), View(m, j)))

MultiplyInMemory(m, i, j) ==
    NewObject(m, performHomomorphicMultiply(View(m, i), View(m, j)))

\* A variant of negateMockValue that negates the operand's array in place.
NegateInMemory_InPlace(m, i) ==
    SharedObject([m EXCEPT !.bufs[m.objs[i].data] =
                               negateMockValue(View(m, i)).data],
                 i, negateMockValue(View(m, i)))

\* negateMockValue, rotateMockValue and modulusSwitch fill a new Uint8Array
\* and put it into a copy of the operand.
NegateInMemory(m, i) == NewObject(m, negateMockValue(View(m, i)))

RotateInMemory(m, i, amount) ==
    NewObject(m, rotateMockValue(View(m, i), amount))

ModulusSwitchInMemory(m, i, fromModulus, toModulus) ==
    NewObject(m, modulusSwitch(View(m, i), fromModulus, toModulus))

\* relinearizeMockValue and bootstrapCiphertext return a copy of the operand
\* that keeps the operand's array.
RelinearizeInMemory(m, i) ==
    SharedObject(m, i, relinearizeMockValue(View(m, i)))

BootstrapInMemory(m, i) ==
    SharedObject(m, i, bootstrapCiphertext(View(m, i)))

\* Rotation amounts (none, forward, backward, a full turn and more than a
\* full turn), and (fromModulus, toModulus) pairs: a switch to half the
\* modulus, as noise reduction does it, and one to twice the modulus.
AmountSample == {0, 1, -1, MaxLen, MaxLen + 1}

ModulusSample == {<<4, 2>>, <<2, 4>>}

\* One object, as encryptValue returns it for noiseStdDev = 3.2.
OpsInit ==
    /\ \E d \in ByteSeqs(MaxLen) :
          mem = [bufs |-> <<d>>,
                 objs |-> <<[data |-> 1, noise |-> BASE_NOISE,
                             depth |-> 0, size |-> 2]>>]
    /\ opLog = [op |-> "none"]
    /\ est = [operation |-> "none"]
    /\ EngineIdle
    /\ CodecIdle
    /\ PackIdle
    /\ KeysIdle
    /\ ServiceIdle
    /\ WireIdle
    /\ BootIdle
    /\ ClockIdle

OpsFrame ==
    UNCHANGED <<engineVars, res, last, codecVars, packVars, keyVars, svcVars,
                wireVars, est, boot, clockVars>>

\* An operation ran on the objects `operands` and left the memory `after`.
Ran(op, operands, after) ==
    /\ Len(mem.objs) < MaxObjs
    /\ mem' = after
    /\ opLog' = [op |-> op, operands |-> operands, before |-> mem]
    /\ OpsFrame

AddObjects ==
    \E i, j \in 1..Len(mem.objs) : Ran("add", <<i, j>>, AddInMemory(mem, i, j))

MultiplyObjects ==
    \E i, j \in 1..Len(mem.objs) :
        Ran("multiply", <<i, j>>, MultiplyInMemory(mem, i, j))

NegateObject ==
    \E i \in 1..Len(mem.objs) : Ran("negate", <<i>>, NegateInMemory(mem, i))

\* The log of a rotation keeps the amount too.
RotateObject ==
    \E i \in 1..Len(mem.objs), amount \in AmountSample :
        /\ Len(mem.objs) < MaxObjs
        /\ mem' = RotateInMemory(mem, i, amount)
        /\ opLog' = [op |-> "rotate", operands |-> <<i>>, amount |-> amount,
                     before |-> mem]
        /\ OpsFrame

RelinearizeObject ==
    \E i \in 1..Len(mem.objs) :
        Ran("relinearize", <<i>>, RelinearizeInMemory(mem, i))

BootstrapObject ==
    \E i \in 1..Len(mem.objs) :
        Ran("bootstrap", <<i>>, BootstrapInMemory(mem, i))

ModulusSwitchObject ==
    \E i \in 1..Len(mem.objs), moduli \in ModulusSample :
        Ran("modulusSwitch", <<i>>,
            ModulusSwitchInMemory(mem, i, moduli[1], moduli[2]))

OpsNext ==
    \/ AddObjects
    \/ MultiplyObjects
    \/ NegateObject
    \/ RotateObject
    \/ RelinearizeObject
    \/ BootstrapObject
    \/ ModulusSwitchObject

SpecOps == OpsInit /\ [][OpsNext]_vars

(***************************************************************************)
(* The noise estimator of the utils.                                       *)
(***************************************************************************)
\* The bound on the number of noise levels handed to the estimator.
MaxNoises == 2

\* Noise levels handed to the estimator.
NoiseLevelSample ==
    {Rat(2, 1), Rat(3, 1), Rat(4, 1), Rat(5, 1), Rat(7, 1), BASE_NOISE}

\* The operation tags handed to the estimator; "divide" is no operation.
EstimatedOperations ==
    {"add", "subtract", "multiply", "rotate", "negate", "bootstrap", "divide"}

NoiseLists == UNION {[1..k -> NoiseLevelSample] : k \in 1..MaxNoises}

\* A call of estimateNoiseGrowth is about to be made.
EstimateInit ==
    /\ est \in {[operation |-> o, inputNoise |-> ns, value |-> "unset"] :
                   o \in EstimatedOperations, ns \in NoiseLists}
    /\ mem = [bufs |-> <<>>, objs |-> <<>>]
    /\ opLog = [op |-> "none"]
    /\ EngineIdle
    /\ CodecIdle
    /\ PackIdle
    /\ KeysIdle
    /\ ServiceIdle
    /\ WireIdle
    /\ BootIdle
    /\ ClockIdle

Estimate ==
    /\ est.operation # "none"
    /\ est.value = "unset"
    /\ est' = [est EXCEPT
                 !.value = estimateNoiseGrowthOf(est.operation, est.inputNoise)]
    /\ UNCHANGED <<engineVars, res, last, codecVars, packVars, keyVars,
                   svcVars, wireVars, memVars, boot, clockVars>>

EstimateNext == Estimate

SpecEstimate == EstimateInit /\ [][EstimateNext]_vars

(***************************************************************************)
(* The service: key lookup and generation.  Every `await` of the source is *)
(* a point where the call is suspended and another call may run; the code  *)
(* between two awaits runs as one step.                                    *)
(***************************************************************************)
WalletSample == {"0xw1"}

\* FHE_CONSTANTS.KEY_CACHE_TTL and BOOTSTRAP_KEY_CACHE_TTL, in milliseconds.
KEY_CACHE_TTL == 3600000

BOOTSTRAP_KEY_CACHE_TTL == 7200000

\* The bound on the hours the clock runs.
MaxHours == 3

SchemeSample == {"tfhe", "ckks"}

EvalKeySample == {<<"evaluationKey", 0>>}

\* Map.prototype.has, get and set.
Has(map, key) == key \in DOMAIN map

MapSet(map, key, value) == (key :> value) @@ map

\* The template strings `${walletAddress}-${scheme}` and `${evalKey}-${scheme}`.
CacheKey(id, scheme) == <<id, "-", scheme>>

\* generateNewKeys(scheme): generateFheKeys fills the three keys with random
\* bytes; `draw` stands for what ethers.utils.randomBytes gave this time.
generateNewKeys(scheme, draw) ==
    [publicKey     |-> <<"publicKey", draw>>,
     privateKey    |-> <<"privateKey", draw>>,
     evaluationKey |-> <<"evaluationKey", draw>>,
     scheme        |-> scheme]

\* generateMockBootstrappingKey(params): params carries no scheme property,
\* so the scheme is params.scheme || FheScheme.TFHE = 'tfhe'.
generateMockBootstrappingKey(draw) ==
    [key             |-> <<"key", draw>>,
     scheme          |-> "tfhe",
     refreshingKey   |-> <<"refreshingKey", draw>>,
     keySwitchingKey |-> <<"keySwitchingKey", draw>>]

\* The KMS: decryptSecret undoes encryptSecret.
encryptSecret(secret) == <<"kms", secret>>

decryptSecret(blob) == blob[2]

\* The row storeUserKeys hands to userRepository.storeFheKeys.
StoredRow(walletAddress, keyPair) ==
    [walletAddress       |-> walletAddress,
     publicKey           |-> keyPair.publicKey,
     encryptedPrivateKey |-> encryptSecret(keyPair.privateKey),
     encryptedEvalKey    |-> encryptSecret(keyPair.evaluationKey),
     scheme              |-> keyPair.scheme]

\* retrieveUserKeys(walletAddress): the row of the wallet, whatever its
\* scheme, decrypted; null when the wallet has no row.
retrieveUserKeys(store, walletAddress) ==
    IF ~Has(store, walletAddress) THEN [none |-> TRUE]
    ELSE LET storedKeys == store[walletAddress]
         IN  [publicKey     |-> storedKeys.publicKey,
              privateKey    |-> decryptSecret(storedKeys.encryptedPrivateKey),
              evaluationKey |-> decryptSecret(storedKeys.encryptedEvalKey),
              scheme        |-> storedKeys.scheme]

IsNull(x) == "none" \in DOMAIN x

KeysInit ==
    /\ EngineIdle
    /\ CodecIdle
    /\ PackIdle
    /\ KeysIdle
    /\ WireIdle
    /\ BootIdle
    /\ ClockIdle
    /\ MemIdle
    /\ ServiceIdle

KeysFrame ==
    UNCHANGED <<engineVars, res, last, codecVars, packVars, svcVars, wireVars,
                memVars, est, boot, now>>

\* The entry of a cache: which Map, and which key.
Entry(cache, cacheKey) == <<cache, cacheKey>>

\* The age of an entry at the present time.
Age(cache, cacheKey) == now - cachedAt[Entry(cache, cacheKey)]

\* getOrGenerateKeys up to its first await: a cache hit returns at once, a
\* miss asks the user repository for the wallet's keys.
CallGetOrGenerateKeys(c) ==
    /\ calls[c].pc = "idle"
    /\ \E walletAddress \in WalletSample, scheme \in SchemeSample :
          LET cacheKey == CacheKey(walletAddress, scheme)
              me == [IdleCall EXCEPT !.kind = "keys", !.id = walletAddress,
                                     !.scheme = scheme]
          IN  IF Has(keyCache, cacheKey)
              THEN calls' = [calls EXCEPT ![c] =
                      [me EXCEPT !.pc = "done", !.result = keyCache[cacheKey],
                                 !.servedAge = Age("keyCache", cacheKey),
                                 !.log = <<"cacheHit">>]]
              ELSE calls' = [calls EXCEPT ![c] =
                      [me EXCEPT !.pc = "reading", !.log = <<"cacheMiss">>]]
    /\ UNCHANGED <<keyCache, bootstrappingKeys, keyStore, genLog, nextKey>>
    /\ UNCHANGED cachedAt
    /\ KeysFrame

\* userRepository.getFheKeys answers (and the KMS decrypts its row).
RetrieveUserKeys(c) ==
    /\ calls[c].pc = "reading"
    /\ calls' = [calls EXCEPT
                   ![c].pc = "read",
                   ![c].tmp = retrieveUserKeys(keyStore, calls[c].id),
                   ![c].log = Append(@, IF Has(keyStore, calls[c].id)
                                        THEN "custodianHit"
                                        ELSE "custodianMiss")]
    /\ UNCHANGED <<keyCache, bootstrappingKeys, keyStore, genLog, nextKey>>
    /\ UNCHANGED cachedAt
    /\ KeysFrame

\* A variant of the step that puts the new key pair into the cache before
\* storeUserKeys is called.
AfterRetrieve_CachesBeforeStoring(c) ==
    /\ calls[c].pc = "read"
    /\ LET cacheKey == CacheKey(calls[c].id, calls[c].scheme)
           existingKeys == calls[c].tmp
           keyPair == generateNewKeys(calls[c].scheme, nextKey + 1)
       IN  IF ~IsNull(existingKeys)
           THEN /\ keyCache' = MapSet(keyCache, cacheKey, existingKeys)
                /\ cachedAt' = MapSet(cachedAt, Entry("keyCache", cacheKey),
                                      now)
                /\ calls' = [calls EXCEPT ![c].pc = "done",
                                          ![c].result = existingKeys,
                                          ![c].log = Append(@, "insert")]
                /\ UNCHANGED <<genLog, nextKey>>
           ELSE /\ nextKey' = nextKey + 1
                /\ genLog' = Append(genLog, cacheKey)
                /\ keyCache' = MapSet(keyCache, cacheKey, keyPair)
                /\ cachedAt' = MapSet(cachedAt, Entry("keyCache", cacheKey),
                                      now)
                /\ calls' = [calls EXCEPT ![c].pc = "storing",
                        ![c].tmp = keyPair,
                        ![c].log = Append(Append(@, "generate"), "insert")]
    /\ UNCHANGED <<bootstrappingKeys, keyStore>>
    /\ KeysFrame

\* getOrGenerateKeys resumes with existingKeys: stored keys are cached and
\* returned; with none, generateNewKeys draws a new key pair.
AfterRetrieve(c) ==
    /\ calls[c].pc = "read"
    /\ LET cacheKey == CacheKey(calls[c].id, calls[c].scheme)
           existingKeys == calls[c].tmp
       IN  IF ~IsNull(existingKeys)
           THEN /\ keyCache' = MapSet(keyCache, cacheKey, existingKeys)
                /\ cachedAt' = MapSet(cachedAt, Entry("keyCache", cacheKey),
                                      now)
                /\ calls' = [calls EXCEPT ![c].pc = "done",
                                          ![c].result = existingKeys,
                                          ![c].log = Append(@, "insert")]
                /\ UNCHANGED <<genLog, nextKey>>
           ELSE /\ nextKey' = nextKey + 1
                /\ genLog' = Append(genLog, cacheKey)
                /\ calls' = [calls EXCEPT ![c].pc = "storing",
                        ![c].tmp = generateNewKeys(calls[c].scheme, nextKey + 1),
                        ![c].log = Append(@, "generate")]
                /\ UNCHANGED <<keyCache, cachedAt>>
    /\ UNCHANGED <<bootstrappingKeys, keyStore>>
    /\ KeysFrame

\* storeUserKeys: the repository writes the row of the wallet, or the KMS or
\* the repository rejects and getOrGenerateKeys throws.
StoreUserKeys(c) ==
    /\ calls[c].pc = "storing"
    /\ \/ /\ keyStore' = MapSet(keyStore, calls[c].id,
                                StoredRow(calls[c].id, calls[c].tmp))
          /\ calls' = [calls EXCEPT ![c].pc = "stored",
                                    ![c].log = Append(@, "persist")]
       \/ /\ calls' = [calls EXCEPT ![c].pc = "failed",
                                    ![c].log = Append(@, "persistFailed")]
          /\ UNCHANGED keyStore
    /\ UNCHANGED <<keyCache, bootstrappingKeys, genLog, nextKey>>
    /\ UNCHANGED cachedAt
    /\ KeysFrame

\* getOrGenerateKeys resumes after storeUserKeys: keyCache.set, return.
CacheGeneratedKeys(c) ==
    /\ calls[c].pc = "stored"
    /\ keyCache' = MapSet(keyCache, CacheKey(calls[c].id, calls[c].scheme),
                          calls[c].tmp)
    /\ cachedAt' = MapSet(cachedAt,
                          Entry("keyCache",
                                CacheKey(calls[c].id, calls[c].scheme)), now)
    /\ calls' = [calls EXCEPT ![c].pc = "done", ![c].result = calls[c].tmp,
                              ![c].log = Append(@, "insert")]
    /\ UNCHANGED <<bootstrappingKeys, keyStore, genLog, nextKey>>
    /\ KeysFrame

\* getBootstrappingKey up to its await: a cache hit returns at once, a miss
\* has the engine draw a new bootstrapping key.
CallGetBootstrappingKey(c) ==
    /\ calls[c].pc = "idle"
    /\ \E evalKey \in EvalKeySample, scheme \in SchemeSample :
          LET cacheKey == CacheKey(evalKey, scheme)
              me == [IdleCall EXCEPT !.kind = "bootstrappingKey",
                                     !.id = evalKey, !.scheme = scheme]
          IN  IF Has(bootstrappingKeys, cacheKey)
              THEN /\ calls' = [calls EXCEPT ![c] =
                        [me EXCEPT !.pc = "done",
                                   !.result = bootstrappingKeys[cacheKey],
                                   !.servedAge =
                                       Age("bootstrappingKeys", cacheKey),
                                   !.log = <<"cacheHit">>]]
                   /\ UNCHANGED <<genLog, nextKey>>
              ELSE /\ nextKey' = nextKey + 1
                   /\ genLog' = Append(genLog, cacheKey)
                   /\ calls' = [calls EXCEPT ![c] =
                        [me EXCEPT !.pc = "generated",
                            !.tmp = generateMockBootstrappingKey(nextKey + 1),
                            !.log = <<"cacheMiss", "generate">>]]
    /\ UNCHANGED <<keyCache, bootstrappingKeys, keyStore>>
    /\ UNCHANGED cachedAt
    /\ KeysFrame

\* getBootstrappingKey resumes: bootstrappingKeys.set, return.
CacheBootstrappingKey(c) ==
    /\ calls[c].pc = "generated"
    /\ bootstrappingKeys' =
          MapSet(bootstrappingKeys, CacheKey(calls[c].id, calls[c].scheme),
                 calls[c].tmp)
    /\ cachedAt' = MapSet(cachedAt,
                          Entry("bootstrappingKeys",
                                CacheKey(calls[c].id, calls[c].scheme)), now)
    /\ calls' = [calls EXCEPT ![c].pc = "done", ![c].result = calls[c].tmp,
                              ![c].log = Append(@, "insert")]
    /\ UNCHANGED <<keyCache, keyStore, genLog, nextKey>>
    /\ KeysFrame

\* An hour passes.
Tick ==
    /\ now < MaxHours * KEY_CACHE_TTL
    /\ now' = now + KEY_CACHE_TTL
    /\ UNCHANGED <<keyVars, cachedAt>>
    /\ UNCHANGED <<engineVars, res, last, codecVars, packVars, svcVars,
                   wireVars, memVars, est, boot>>

KeysNext ==
    \/ Tick
    \/ \E c \in 1..MaxCalls :
          \/ CallGetOrGenerateKeys(c)
          \/ RetrieveUserKeys(c)
          \/ AfterRetrieve(c)
          \/ StoreUserKeys(c)
          \/ CacheGeneratedKeys(c)
          \/ CallGetBootstrappingKey(c)
          \/ CacheBootstrappingKey(c)

SpecKeys == KeysInit /\ [][KeysNext]_vars

(***************************************************************************)
(* The service: homomorphic operations.  A request is served from its      *)
(* first line to its return or throw; W is the key state (the two caches,  *)
(* the stored rows, the generations) it finds and leaves.                  *)
(***************************************************************************)
MaxKeys == 3

MaxInputs == 2

World ==
    [keyCache |-> keyCache, bootstrappingKeys |-> bootstrappingKeys,
     keyStore |-> keyStore, genLog |-> genLog, nextKey |-> nextKey]

\* getOrGenerateKeys with no other call in between.  storeOk: whether the
\* KMS and the repository accept what storeUserKeys hands them.
getOrGenerateKeys(W, walletAddress, scheme, storeOk) ==
    LET cacheKey     == CacheKey(walletAddress, scheme)
        existingKeys == retrieveUserKeys(W.keyStore, walletAddress)
        keyPair      == generateNewKeys(scheme, W.nextKey + 1)
        drawn        == [W EXCEPT !.nextKey = @ + 1,
                                  !.genLog = Append(@, cacheKey)]
    IN  IF Has(W.keyCache, cacheKey)
        THEN [err |-> "none", value |-> W.keyCache[cacheKey], W |-> W]
        ELSE IF ~IsNull(existingKeys)
        THEN [err |-> "none", value |-> existingKeys,
              W |-> [W EXCEPT !.keyCache = MapSet(@, cacheKey, existingKeys)]]
        ELSE IF ~storeOk
        THEN [err |-> "storeUserKeys failed", W |-> drawn]
        ELSE [err |-> "none", value |-> keyPair,
              W |-> [drawn EXCEPT
                       !.keyStore = MapSet(@, walletAddress,
                                           StoredRow(walletAddress, keyPair)),
                       !.keyCache = MapSet(@, cacheKey, keyPair)]]

\* getBootstrappingKey with no other call in between.
getBootstrappingKey(W, evalKey, scheme) ==
    LET cacheKey == CacheKey(evalKey, scheme)
        bootstrappingKey == generateMockBootstrappingKey(W.nextKey + 1)
    IN  IF Has(W.bootstrappingKeys, cacheKey)
        THEN [value |-> W.bootstrappingKeys[cacheKey], W |-> W]
        ELSE [value |-> bootstrappingKey,
              W |-> [W EXCEPT !.nextKey = @ + 1,
                              !.genLog = Append(@, cacheKey),
                              !.bootstrappingKeys =
                                  MapSet(@, cacheKey, bootstrappingKey)]]

\* The for loop of performAddition from input number i (1-based) on.
RECURSIVE AdditionLoop(_, _, _)
AdditionLoop(inputs, i, result) ==
    IF i > Len(inputs) THEN result
    ELSE AdditionLoop(inputs, i + 1, performHomomorphicAdd(result, inputs[i]))

performAddition(inputs) ==
    IF Len(inputs) < 2
    THEN [err |-> "Addition requires at least 2 inputs"]
    ELSE [err |-> "none", value |-> AdditionLoop(inputs, 2, inputs[1])]

\* A variant of needsRelinearization whose threshold is one too high.
needsRelinearization_OneTooHigh(ciphertext) ==
    (IF "size" \in DOMAIN ciphertext /\ ciphertext.size # 0
     THEN ciphertext.size ELSE 2) > MAX_CIPHERTEXT_SIZE + 1

\* needsRelinearization: (ciphertext.size || 2) > MAX_CIPHERTEXT_SIZE.
needsRelinearization(ciphertext) ==
    (IF "size" \in DOMAIN ciphertext /\ ciphertext.size # 0
     THEN ciphertext.size ELSE 2) > MAX_CIPHERTEXT_SIZE

\* The for loop of performMultiplication from input number i (1-based) on.
RECURSIVE MultiplicationLoop(_, _, _)
MultiplicationLoop(inputs, i, result) ==
    IF i > Len(inputs) THEN result
    ELSE LET product == performHomomorphicMultiply(result, inputs[i])
         IN  MultiplicationLoop(inputs, i + 1,
                IF needsRelinearization(product)
                THEN relinearizeMockValue(product) ELSE product)

performMultiplication(inputs) ==
    IF Len(inputs) < 2
    THEN [err |-> "Multiplication requires at least 2 inputs"]
    ELSE [err |-> "none", value |-> MultiplicationLoop(inputs, 2, inputs[1])]

\* A variant of performSubtraction that asks for at least 2 inputs.
performSubtraction_AtLeastTwo(inputs) ==
    IF Len(inputs) < 2
    THEN [err |-> "Subtraction requires exactly 2 inputs"]
    ELSE [err |-> "none",
          value |-> performHomomorphicAdd(inputs[1],
                                          negateMockValue(inputs[2]))]

performSubtraction(inputs) ==
    IF Len(inputs) # 2
    THEN [err |-> "Subtraction requires exactly 2 inputs"]
    ELSE [err |-> "none",
          value |-> performHomomorphicAdd(inputs[1],
                                          negateMockValue(inputs[2]))]

\* inputs[0]: undefined when there is no input.
FirstInput(inputs) == IF Len(inputs) >= 1 THEN inputs[1] ELSE Undefined

\* performNegation: value.data of undefined is a TypeError.
performNegation(input) ==
    IF IsUndefined(input) THEN [err |-> "TypeError"]
    ELSE [err |-> "none", value |-> negateMockValue(input)]

performRotation(input, rotationAmount) ==
    IF IsUndefined(input) THEN [err |-> "TypeError"]
    ELSE [err |-> "none", value |-> rotateMockValue(input, rotationAmount)]

performBootstrapping(W, input, evalKey, scheme) ==
    LET got == getBootstrappingKey(W, evalKey, scheme)
    IN  [err |-> "none", value |-> bootstrapCiphertext(input), W |-> got.W]

\* calculateNoiseLevel(ciphertext): Math.random() * 50, here `draw`, times
\* (ciphertext.depth || 1).
calculateNoiseLevel(ciphertext, draw) ==
    LET depthFactor == IF "depth" \in DOMAIN ciphertext /\ ciphertext.depth # 0
                       THEN ciphertext.depth ELSE 1
    IN  RMul(draw, Rat(depthFactor, 1))

\* operation.inputs.map(input => deserializeCiphertext(input)): the first
\* input that fails to deserialize throws.
DeserializeInputs(inputs) ==
    LET parsed == [k \in 1..Len(inputs) |-> deserializeCiphertext(inputs[k])]
    IN  IF \E k \in 1..Len(inputs) : parsed[k].err # "none"
        THEN [err |-> "Failed to deserialize ciphertext"]
        ELSE [err |-> "none",
              value |-> [k \in 1..Len(inputs) |-> parsed[k].value]]

\* operation.rotationAmount || 1.
RotationAmountOrOne(operation) ==
    IF "rotationAmount" \in DOMAIN operation /\ operation.rotationAmount # 0
    THEN operation.rotationAmount ELSE 1

\* operation.autoBootstrap as a condition: undefined is false.
AutoBootstrap(operation) ==
    "autoBootstrap" \in DOMAIN operation /\ operation.autoBootstrap

\* The switch of performHomomorphicOperation.
OperationSwitch(W, operation, inputs, evalKey) ==
    CASE operation.type = "add" ->
            performAddition(inputs) @@ [W |-> W]
      [] operation.type = "multiply" ->
            performMultiplication(inputs) @@ [W |-> W]
      [] operation.type = "subtract" ->
            performSubtraction(inputs) @@ [W |-> W]
      [] operation.type = "negate" ->
            performNegation(FirstInput(inputs)) @@ [W |-> W]
      [] operation.type = "rotate" ->
            performRotation(FirstInput(inputs), RotationAmountOrOne(operation))
               @@ [W |-> W]
      [] operation.type = "bootstrap" ->
            performBootstrapping(W, FirstInput(inputs), evalKey,
                                 operation.scheme)
      [] OTHER -> [err |-> "Unsupported operation", W |-> W]

\* needsBootstrapping = calculateNoiseLevel(result) > MAX_NOISE_LEVEL.
NeedsBootstrapping(result, draw) ==
    RLt(MAX_NOISE_LEVEL, calculateNoiseLevel(result, draw))

\* performHomomorphicOperation(userId, operation), with the two values its
\* calls of calculateNoiseLevel draw.
performHomomorphicOperation(W, userId, operation, draw1, draw2, storeOk) ==
    LET walletAddress == users[userId]
        inputs     == DeserializeInputs(operation.inputs)
        keys       == getOrGenerateKeys(W, walletAddress, operation.scheme,
                                        storeOk)
        evalKey    == keys.value.evaluationKey
        op         == OperationSwitch(keys.W, operation, inputs.value, evalKey)
        needsBootstrapping == NeedsBootstrapping(op.value, draw1)
        final      == IF needsBootstrapping /\ AutoBootstrap(operation)
                      THEN performBootstrapping(op.W, op.value, evalKey,
                                                operation.scheme)
                      ELSE op
        serialized == serializeCiphertext(final.value)
    IN  IF walletAddress = ""
        THEN [err |-> "User wallet not found", W |-> W]
        ELSE IF inputs.err # "none" THEN [err |-> inputs.err, W |-> W]
        ELSE IF keys.err # "none" THEN [err |-> keys.err, W |-> keys.W]
        ELSE IF op.err # "none" THEN [err |-> op.err, W |-> op.W]
        ELSE IF serialized.err # "none"
        THEN [err |-> serialized.err, W |-> final.W]
        ELSE [err |-> "none",
              value |-> [result        |-> serialized.value,
                         operationType |-> operation.type,
                         noiseLevel    |-> calculateNoiseLevel(final.value,
                                                               draw2),
                         bootstrapped  |-> IF needsBootstrapping
                                           THEN Prop(operation, "autoBootstrap")
                                           ELSE FALSE],
              W |-> final.W]

(***************************************************************************)
(* The service: circuits.                                                  *)
(***************************************************************************)
\* Math.max() of no numbers is -Infinity; this number stands for it.
NegInfinity == -1000000

\* Math.max(...numbers).
MathMax(numbers) ==
    IF Len(numbers) = 0 THEN NegInfinity
    ELSE CHOOSE m \in {numbers[k] : k \in 1..Len(numbers)} :
            \A k \in 1..Len(numbers) : numbers[k] <= m

\* x + 1, with -Infinity + 1 = -Infinity.
PlusOne(x) == IF x = NegInfinity THEN NegInfinity ELSE x + 1

\* A variant of the turn that counts every gate, not the multiply gates only.
CircuitDepthStep_CountsEveryGate(acc, gate) ==
    LET inputDepths ==
            [k \in 1..Len(gate.inputs) |->
                IF Has(acc.depths, gate.inputs[k])
                THEN acc.depths[gate.inputs[k]] ELSE 0]
        gateDepth == PlusOne(MathMax(inputDepths))
    IN  [depths   |-> MapSet(acc.depths, gate.output, gateDepth),
         maxDepth |-> Max(acc.maxDepth, gateDepth)]

\* One turn of the loop of calculateCircuitDepth: the gate's depth goes
\* into depths, and into maxDepth when it is greater.
CircuitDepthStep(acc, gate) ==
    LET inputDepths ==
            [k \in 1..Len(gate.inputs) |->
                IF Has(acc.depths, gate.inputs[k])
                THEN acc.depths[gate.inputs[k]] ELSE 0]
        gateDepth == IF gate.operation = "multiply"
                     THEN PlusOne(MathMax(inputDepths))
                     ELSE MathMax(inputDepths)
    IN  [depths   |-> MapSet(acc.depths, gate.output, gateDepth),
         maxDepth |-> Max(acc.maxDepth, gateDepth)]

\* The loop of calculateCircuitDepth over the gates from number g on.  (The
\* singleton set makes the value of a turn be computed once.)
RECURSIVE CircuitDepthLoop(_, _, _)
CircuitDepthLoop(gates, g, acc) ==
    IF g > Len(gates) THEN acc.maxDepth
    ELSE CHOOSE d \in {CircuitDepthLoop(gates, g + 1, next) :
                          next \in {CircuitDepthStep(acc, gates[g])}} : TRUE

calculateCircuitDepth(circuit) ==
    CircuitDepthLoop(circuit.gates, 1,
        [depths   |-> [w \in {circuit.inputs[k] :
                                 k \in 1..Len(circuit.inputs)} |-> 0],
         maxDepth |-> 0])

\* How many gates of the circuit have the operation op.
GateCount(circuit, op) ==
    Cardinality({g \in 1..Len(circuit.gates) : circuit.gates[g].operation = op})

\* estimateNoiseGrowth(circuit): BASE_NOISE times 2.5 for every multiply
\* gate, 1.1 for every add gate and 1.2 for every rotate gate.  The product
\* is kept as its factors.
estimateNoiseGrowth(circuit) ==
    [base             |-> BASE_NOISE,
     timesMultiply    |-> GateCount(circuit, "multiply"),
     timesAdd         |-> GateCount(circuit, "add"),
     timesRotate      |-> GateCount(circuit, "rotate")]

compileCircuit(circuit) ==
    [operations  |-> [g \in 1..Len(circuit.gates) |->
                        [type   |-> circuit.gates[g].operation,
                         inputs |-> circuit.gates[g].inputs,
                         output |-> circuit.gates[g].output]
                        @@ (IF "parameters" \in DOMAIN circuit.gates[g]
                            THEN [parameters |-> circuit.gates[g].parameters]
                            ELSE <<>>)],
     inputCount  |-> Len(circuit.inputs),
     outputCount |-> Len(circuit.outputs),
     depth       |-> calculateCircuitDepth(circuit),
     estimatedNoiseGrowth |-> estimateNoiseGrowth(circuit)]

\* createFheCircuit(userId, circuit): the circuit id it returns, and the
\* execution plan it hands to storeCircuitDefinition (which logs a line and
\* keeps nothing).
createFheCircuit(userId, circuit) ==
    LET walletAddress == users[userId]
        executionPlan == compileCircuit(circuit)
    IN  IF walletAddress = "" THEN [err |-> "User wallet not found"]
        ELSE [err |-> "none",
              value |-> <<"id", walletAddress, circuit.name>>,
              stored |-> executionPlan]

\* loadCircuitDefinition(circuitId): the same circuit for every id.
loadCircuitDefinition(circuitId) ==
    [name    |-> "mock-circuit",
     inputs  |-> <<"input1", "input2">>,
     outputs |-> <<"output">>,
     gates   |-> <<[operation |-> "add",
                    inputs    |-> <<"input1", "input2">>,
                    output    |-> "output"]>>]

\* wireValues.get(name): undefined for a wire that is not bound.
WireGet(wireValues, name) ==
    IF Has(wireValues, name) THEN wireValues[name] ELSE Undefined

\* The first error among the results, or "none".
FirstError(results) ==
    IF \A k \in 1..Len(results) : results[k].err = "none" THEN "none"
    ELSE results[CHOOSE k \in 1..Len(results) :
                    /\ results[k].err # "none"
                    /\ \A j \in 1..(k - 1) : results[j].err = "none"].err

\* executeGate(gate, inputs, evalKey, scheme): the operation is run by
\* performHomomorphicOperation for the user id 'system', with autoBootstrap.
executeGate(W, gate, inputs, draw1, draw2, storeOk) ==
    LET serialized == [k \in 1..Len(inputs) |-> serializeCiphertext(inputs[k])]
        operation  == [type          |-> gate.operation,
                       inputs        |-> [k \in 1..Len(inputs) |->
                                             serialized[k].value],
                       scheme        |-> "tfhe",
                       autoBootstrap |-> TRUE]
        result     == performHomomorphicOperation(W, "system", operation,
                                                  draw1, draw2, storeOk)
        parsed     == deserializeCiphertext(result.value.result)
    IN  IF FirstError(serialized) # "none"
        THEN [err |-> FirstError(serialized), W |-> W]
        ELSE IF result.err # "none" THEN [err |-> result.err, W |-> result.W]
        ELSE IF parsed.err # "none" THEN [err |-> parsed.err, W |-> result.W]
        ELSE [err |-> "none", value |-> parsed.value, W |-> result.W]

\* The last loop of executeCircuit: every output wire's value, serialized.
CollectOutputs(circuit, wireValues) ==
    LET serialized == [k \in 1..Len(circuit.outputs) |->
                         serializeCiphertext(
                            WireGet(wireValues, circuit.outputs[k]))]
    IN  IF FirstError(serialized) # "none"
        THEN [err |-> FirstError(serialized)]
        ELSE [err |-> "none",
              value |-> [w \in {circuit.outputs[k] :
                                   k \in 1..Len(circuit.outputs)} |->
                            serialized[CHOOSE k \in 1..Len(circuit.outputs) :
                                          circuit.outputs[k] = w].value]]

\* The ciphertexts requests carry: a fresh one, a noisy one, and a noisy one
\* of depth 3 (deep enough for calculateNoiseLevel to pass 100).
ServiceCtSample ==
    {[data |-> <<1, 200>>, noise |-> BASE_NOISE, depth |-> 0, size |-> 2],
     [data |-> <<200>>, noise |-> Rat(60, 1), depth |-> 0, size |-> 2],
     [data |-> <<1>>, noise |-> Rat(60, 1), depth |-> 3, size |-> 3]}

\* A string that is no serialized ciphertext.
Garbage == [garbage |-> TRUE]

SerializedSample ==
    {serializeCiphertext(c).value : c \in ServiceCtSample} \cup {Garbage}

\* Math.random() * 50 lies in [0, 50).
RandomSample == {Rat(0, 1), Rat(40, 1)}

OperationTypeSample ==
    {"add", "multiply", "subtract", "negate", "rotate", "bootstrap", "divide"}

\* The input lists of the requests: every list of up to MaxInputs strings,
\* and one string repeated MaxInputs + 1 times.
InputSeqs ==
    UNION {[1..k -> SerializedSample] : k \in 0..MaxInputs}
    \cup {[k \in 1..(MaxInputs + 1) |-> str] : str \in SerializedSample}

OperationSample ==
    LET plain0 == {[type |-> t, inputs |-> i, scheme |-> "tfhe"] :
                     t \in OperationTypeSample, i \in InputSeqs}
        withAuto == {[autoBootstrap |-> TRUE] @@ o : o \in plain0}
        rotations == {[rotationAmount |-> r] @@ o :
                        r \in {0, 2},
                        o \in {x \in plain0 : x.type = "rotate"}}
    IN  plain0 \cup withAuto \cup rotations

SetWorld(W) ==
    /\ keyCache' = W.keyCache
    /\ bootstrappingKeys' = W.bootstrappingKeys
    /\ keyStore' = W.keyStore
    /\ genLog' = W.genLog
    /\ nextKey' = W.nextKey
    /\ UNCHANGED calls

ServiceInit ==
    /\ EngineIdle
    /\ CodecIdle
    /\ PackIdle
    /\ KeysIdle
    /\ WireIdle
    /\ BootIdle
    /\ ClockIdle
    /\ MemIdle
    /\ users \in {UsersWith(""), UsersWith("0xsys")}
    /\ request = [handler |-> "none"]
    /\ response = [err |-> "unset"]
    /\ exec = NoExec

ServiceFrame ==
    UNCHANGED <<engineVars, res, last, codecVars, packVars, wireVars,
                memVars, est, boot, clockVars>>

\* The service serves one request at a time: a request is taken when the
\* response to the one before has been delivered.
PerformHomomorphicOperation ==
    /\ request.handler = "none"
    /\ \E userId \in {"u1", "ghost"}, operation \in OperationSample,
          draw1 \in RandomSample, draw2 \in RandomSample, storeOk \in BOOLEAN :
          LET out == performHomomorphicOperation(World, userId, operation,
                                                 draw1, draw2, storeOk)
          IN  /\ out.W.nextKey <= MaxKeys
              /\ request' = [handler |-> "performHomomorphicOperation",
                             userId |-> userId, operation |-> operation]
              /\ response' = [f \in DOMAIN out \ {"W"} |-> out[f]]
              /\ SetWorld(out.W)
    /\ UNCHANGED <<users, exec>>
    /\ ServiceFrame

\* The wire names the sampled circuits use for their gates' outputs.
WireNames ==
    <<"w1", "w2", "w3", "w4", "w5", "w6", "w7", "w8", "w9", "w10", "w11",
      "w12", "w13", "w14", "w15", "w16", "w17", "w18", "w19", "w20", "w21",
      "w22", "w23">>

\* A circuit of n multiply gates, each squaring the output of the one before.
MultiplyChain(n) ==
    [name    |-> "chain",
     inputs  |-> <<"input1">>,
     outputs |-> <<WireNames[n]>>,
     gates   |-> [g \in 1..n |->
                    [operation |-> "multiply",
                     inputs    |-> IF g = 1 THEN <<"input1", "input1">>
                                   ELSE <<WireNames[g - 1], WireNames[g - 1]>>,
                     output    |-> WireNames[g]]]]

\* The circuits createFheCircuit is handed: chains up to one multiply more
\* than MAX_CIRCUIT_DEPTH, the circuit loadCircuitDefinition knows, a gate
\* with no inputs, an output wire nothing produces and a gate that reads a
\* wire nothing binds.
CircuitSample ==
    {MultiplyChain(n) : n \in {1, 2, MAX_CIRCUIT_DEPTH, MAX_CIRCUIT_DEPTH + 1}}
    \cup {loadCircuitDefinition("any"),
          [name |-> "product", inputs |-> <<"input1", "input2">>,
           outputs |-> <<"w2">>,
           gates |-> <<[operation |-> "multiply",
                        inputs |-> <<"input1", "input2">>, output |-> "w1"],
                       [operation |-> "add",
                        inputs |-> <<"w1", "input2">>, output |-> "w2"]>>],
          [name |-> "divider", inputs |-> <<"input1", "input2">>,
           outputs |-> <<"w1">>,
           gates |-> <<[operation |-> "divide",
                        inputs |-> <<"input1", "input2">>, output |-> "w1"]>>],
          [name |-> "constant", inputs |-> <<>>, outputs |-> <<"w1">>,
           gates |-> <<[operation |-> "add", inputs |-> <<>>,
                        output |-> "w1"]>>],
          [name |-> "orphan", inputs |-> <<"input1", "input2">>,
           outputs |-> <<"w1", "w9">>,
           gates |-> <<[operation |-> "add",
                        inputs |-> <<"input1", "input2">>, output |-> "w1"]>>],
          [name |-> "dangling", inputs |-> <<"input1">>, outputs |-> <<"w1">>,
           gates |-> <<[operation |-> "rotate", inputs |-> <<"w2">>,
                        output |-> "w1",
                        parameters |-> [rotationAmount |-> 2]]>>]}

CreateFheCircuit ==
    /\ request.handler = "none"
    /\ \E userId \in {"u1", "ghost"}, circuit \in CircuitSample :
          /\ request' = [handler |-> "createFheCircuit",
                         userId |-> userId, circuit |-> circuit]
          /\ response' = createFheCircuit(userId, circuit)
    /\ UNCHANGED <<users, exec, keyVars>>
    /\ ServiceFrame

\* The objects executeCircuit is handed as encryptedInputs: any of the two
\* names the loaded circuit reads may be missing.
EncryptedInputsSample ==
    UNION {[names -> SerializedSample] : names \in SUBSET {"input1", "input2"}}

\* The loop that loads the inputs: wireValues after it, or the error of an
\* input that fails to deserialize.
LoadInputs(encryptedInputs) ==
    IF \E n \in DOMAIN encryptedInputs :
            deserializeCiphertext(encryptedInputs[n]).err # "none"
    THEN [err |-> "Failed to deserialize ciphertext"]
    ELSE [err |-> "none",
          value |-> [n \in DOMAIN encryptedInputs |->
                        deserializeCiphertext(encryptedInputs[n]).value]]

\* executeCircuit up to its loop over the gates: the user, the circuit, the
\* evaluation key and the input wires.
ExecuteCircuit ==
    /\ request.handler = "none"
    /\ \E userId \in {"u1", "ghost"},
          encryptedInputs \in EncryptedInputsSample, storeOk \in BOOLEAN :
          LET walletAddress == users[userId]
              circuit == loadCircuitDefinition("any")
              keys    == getOrGenerateKeys(World, walletAddress, "tfhe", storeOk)
              loaded  == LoadInputs(encryptedInputs)
              failure == IF walletAddress = "" THEN "User wallet not found"
                         ELSE IF keys.err # "none" THEN keys.err
                         ELSE loaded.err
              outputs == CollectOutputs(circuit, loaded.value)
          IN  /\ walletAddress # "" => keys.W.nextKey <= MaxKeys
              /\ request' = [handler |-> "executeCircuit", userId |-> userId,
                             encryptedInputs |-> encryptedInputs]
              /\ IF walletAddress = "" THEN UNCHANGED keyVars
                 ELSE SetWorld(keys.W)
              /\ IF failure # "none"
                 THEN /\ response' = [err |-> failure]
                      /\ exec' = NoExec
                 ELSE IF Len(circuit.gates) = 0
                 THEN /\ response' = outputs
                      /\ exec' = [pc |-> "done", wireValues |-> loaded.value]
                 ELSE /\ response' = [err |-> "unset"]
                      /\ exec' = [pc |-> "gates", circuit |-> circuit,
                                  evalKey |-> keys.value.evaluationKey,
                                  wireValues |-> loaded.value, gate |-> 1,
                                  inputs |-> <<>>]
    /\ UNCHANGED users
    /\ ServiceFrame

\* One turn of the loop over the gates; after the last gate the outputs are
\* collected and returned.  exec.inputs keeps what the gate was handed.
ExecuteGate ==
    /\ exec.pc = "gates"
    /\ \E draw1 \in RandomSample, draw2 \in RandomSample, storeOk \in BOOLEAN :
       \E inputs \in {[k \in 1..Len(exec.circuit.gates[exec.gate].inputs) |->
                         WireGet(exec.wireValues,
                                 exec.circuit.gates[exec.gate].inputs[k])]} :
       \E result \in {executeGate(World, exec.circuit.gates[exec.gate], inputs,
                                  draw1, draw2, storeOk)} :
          LET gate == exec.circuit.gates[exec.gate]
              wireValues == MapSet(exec.wireValues, gate.output, result.value)
              outputs == CollectOutputs(exec.circuit, wireValues)
          IN  /\ result.W.nextKey <= MaxKeys
              /\ SetWorld(result.W)
              /\ IF result.err # "none"
                 THEN /\ response' = [err |-> result.err]
                      /\ exec' = [exec EXCEPT !.pc = "failed",
                                              !.inputs = inputs]
                 ELSE IF exec.gate < Len(exec.circuit.gates)
                 THEN /\ response' = response
                      /\ exec' = [exec EXCEPT !.wireValues = wireValues,
                                              !.gate = @ + 1,
                                              !.inputs = inputs]
                 ELSE /\ response' = outputs
                      /\ exec' = [exec EXCEPT !.pc = "done",
                                              !.wireValues = wireValues,
                                              !.inputs = inputs]
    /\ UNCHANGED <<users, request>>
    /\ ServiceFrame

\* The caller takes the response (or the error).
Deliver ==
    /\ response.err # "unset"
    /\ request' = [handler |-> "none"]
    /\ response' = [err |-> "unset"]
    /\ exec' = NoExec
    /\ UNCHANGED <<users, keyVars>>
    /\ ServiceFrame

ServiceNext ==
    \/ PerformHomomorphicOperation
    \/ CreateFheCircuit
    \/ ExecuteCircuit
    \/ ExecuteGate
    \/ Deliver

SpecService == ServiceInit /\ [][ServiceNext]_vars

(***************************************************************************)
(* The service: start-up.  The constructor calls initializeFheSystem and   *)
(* does not await it; the public methods reach this.tfheInstance after     *)
(* awaits of their own.  Every await is a point where the other side may   *)
(* run.                                                                    *)
(***************************************************************************)
\* Object.values(FheScheme), in the order of the enum.
FheSchemes == <<"tfhe", "ckks", "bgv", "bfv">>

\* The public methods that reach the engine instance.
PublicMethods ==
    {"encryptField", "decryptField", "performHomomorphicOperation",
     "executeCircuit"}

\* A caller that has not called yet.
IdleCaller == [method |-> "none", pc |-> "idle", initWas |-> "none",
               err |-> "none"]

\* The state the constructor leaves: initializeFheSystem is suspended at
\* `await initializeTfheWasm(...)` and this.tfheInstance is undefined.
BootInit ==
    /\ boot = [init         |-> "initializing",
               tfheInstance |-> "undefined",
               scheme       |-> 0,
               loaded       |-> {},
               callers      |-> [c \in 1..MaxCalls |-> IdleCaller]]
    /\ EngineIdle
    /\ CodecIdle
    /\ PackIdle
    /\ KeysIdle
    /\ ServiceIdle
    /\ WireIdle
    /\ MemIdle
    /\ ClockIdle

BootFrame ==
    UNCHANGED <<engineVars, res, last, codecVars, packVars, keyVars, svcVars,
                wireVars, memVars, est, clockVars>>

\* initializeFheSystem resumes with the engine module: it is assigned to
\* this.tfheInstance, and the loop over the schemes awaits loadParameters
\* for the first scheme.
InitializeTfheWasm ==
    /\ boot.init = "initializing"
    /\ boot' = [boot EXCEPT !.init = "loading",
                            !.tfheInstance = "tfheModule",
                            !.scheme = 1]
    /\ BootFrame

\* loadParameters has resolved for the scheme awaited: the loop goes on to
\* the next scheme, or ends and the start-up is logged as successful.
LoadParameters ==
    /\ boot.init = "loading"
    /\ boot' = [boot EXCEPT
                  !.loaded = @ \cup {FheSchemes[boot.scheme]},
                  !.scheme = IF boot.scheme < Len(FheSchemes)
                             THEN boot.scheme + 1 ELSE 0,
                  !.init = IF boot.scheme < Len(FheSchemes)
                           THEN "loading" ELSE "initialized"]
    /\ BootFrame

\* A public method is called: it runs up to `await getUserById(userId)`.
CallPublicMethod(c) ==
    /\ boot.init # "none"
    /\ boot.callers[c].pc = "idle"
    /\ \E method \in PublicMethods :
          boot' = [boot EXCEPT !.callers[c] =
                      [IdleCaller EXCEPT !.method = method,
                                         !.pc = "getUserById"]]
    /\ BootFrame

\* The method goes on, through its key lookup, to its first access of the
\* engine, this.tfheInstance.createContext(...): a TypeError when the
\* instance is undefined, a call of the engine otherwise.
CreateContext(c) ==
    /\ boot.callers[c].pc = "getUserById"
    /\ boot' = [boot EXCEPT !.callers[c] =
                  IF boot.tfheInstance = "undefined"
                  THEN [@ EXCEPT !.pc = "failed", !.err = "TypeError",
                                 !.initWas = boot.init]
                  ELSE [@ EXCEPT !.pc = "usedEngine",
                                 !.initWas = boot.init]]
    /\ BootFrame

\* The caller takes the result (or the error); the slot is free again.
ReturnToCaller(c) ==
    /\ boot.callers[c].pc \in {"usedEngine", "failed"}
    /\ boot' = [boot EXCEPT !.callers[c] = IdleCaller]
    /\ BootFrame

BootNext ==
    \/ InitializeTfheWasm
    \/ LoadParameters
    \/ \E c \in 1..MaxCalls :
          \/ CallPublicMethod(c)
          \/ CreateContext(c)
          \/ ReturnToCaller(c)

SpecBoot == BootInit /\ [][BootNext]_vars

(***************************************************************************)
(* Claims.                                                                 *)
(***************************************************************************)

\* Equality of two rationals, by cross-multiplication.
REq(x, y) == x[1] * y[2] = y[1] * x[2]

\* Coefficient k (0-based) of the product of the polynomials a and b.
ConvolutionAt(a, b, k) ==
    SumSeq([n \in 1..Len(a) |->
              LET j == k - (n - 1)
              IN  IF j >= 0 /\ j < Len(b) THEN a[n] * At(b, j) ELSE 0])

\* C1: decryptValue applied to the ciphertext encryptValue(m, sigma) returned
\* gives back exactly m.
C1_RoundTrip ==
    last = "decrypt" => (plain.err = "none" /\ plain.value = msg)

\* C2: performHomomorphicMultiply(a, b) has noise a.noise * b.noise * 2.5,
\* depth max(a.depth, b.depth) + 1, size a.size + b.size, and a payload of
\* length len(a) + len(b) that is the convolution of the payloads mod 256.
C2_MultiplyContract ==
    last = "multiply" =>
        /\ REq(res.noise, <<opA.noise[1] * opB.noise[1] * 25,
                            opA.noise[2] * opB.noise[2] * 10>>)
        /\ res.depth = Max(opA.depth, opB.depth) + 1
        /\ res.size = opA.size + opB.size
        /\ Len(res.data) = Len(opA.data) + Len(opB.data)
        /\ \A k \in 0..(Len(res.data) - 1) :
              At(res.data, k) = ConvolutionAt(opA.data, opB.data, k) % 256

C2_Witness ==
    /\ last = "multiply"
    /\ Len(opA.data) = 2
    /\ Len(opB.data) = 2
    /\ opA.depth < opB.depth
    /\ opA.size # opB.size
    /\ opA.noise # opB.noise

\* C3: performHomomorphicAdd(a, b) has noise a.noise + b.noise + 1.1, depth
\* max(a.depth, b.depth), size a.size, and a payload of length max(len(a),
\* len(b)) whose byte i is (a[i] + b[i]) mod 256, the shorter one zero-padded.
C3_AddContract ==
    last = "add" =>
        /\ REq(res.noise,
               <<(opA.noise[1] * opB.noise[2] + opB.noise[1] * opA.noise[2]) * 10
                    + 11 * opA.noise[2] * opB.noise[2],
                 opA.noise[2] * opB.noise[2] * 10>>)
        /\ res.depth = Max(opA.depth, opB.depth)
        /\ res.size = opA.size
        /\ Len(res.data) = Max(Len(opA.data), Len(opB.data))
        /\ \A i \in 1..Len(res.data) :
              res.data[i] =
                 ((IF i <= Len(opA.data) THEN opA.data[i] ELSE 0)
                   + (IF i <= Len(opB.data) THEN opB.data[i] ELSE 0)) % 256

C3_Witness ==
    /\ last = "add"
    /\ Len(opA.data) = 1
    /\ Len(opB.data) = 2
    /\ opA.depth > opB.depth
    /\ opA.size # opB.size

\* C4: bootstrapCiphertext(x) has noise 3.2, depth 0 and bootstrapped = true,
\* keeps the payload and the size of x, and returns x itself when x is
\* already the result of a bootstrap.
C4_BootstrapReset ==
    last = "bootstrap" =>
        /\ REq(res.noise, <<32, 10>>)
        /\ res.depth = 0
        /\ res.bootstrapped = TRUE
        /\ res.data = arg.data
        /\ res.size = arg.size
        /\ ("bootstrapped" \in DOMAIN arg => res = arg)

C4_Witness ==
    /\ last = "bootstrap"
    /\ "bootstrapped" \in DOMAIN arg
    /\ arg.data # <<>>
    /\ opA.depth > 0
    /\ opA.noise # BASE_NOISE

\* The 4-byte big-endian form of a length.
BigEndian4(n) ==
    <<n \div 16777216, (n \div 65536) % 256, (n \div 256) % 256, n % 256>>

\* The packed form: each buffer's big-endian length, then its bytes.
RECURSIVE Records(_)
Records(vals) ==
    IF vals = <<>> THEN <<>>
    ELSE BigEndian4(Len(Head(vals))) \o Head(vals) \o Records(Tail(vals))

\* C10: unpackValues(packValues(values)) is values, element for element, and
\* packValues emits each buffer as a 4-byte big-endian length and its bytes.
C10_PackRoundTrip ==
    /\ last \in {"pack", "unpack"} => packed = Records(values)
    /\ last = "unpack" =>
          /\ unpacked.err = "none"
          /\ Len(unpacked.values) = Len(values)
          /\ \A k \in 1..Len(values) : unpacked.values[k] = values[k]

C10_Witness ==
    /\ last = "unpack"
    /\ Len(values) = 2
    /\ values[1] = <<>>
    /\ Len(values[2]) = MaxLen
    /\ unpacked.err = "none"

\* The number of generations the log holds for a cache key.
Generations(cacheKey) ==
    Cardinality({n \in 1..Len(genLog) : genLog[n] = cacheKey})

\* C8: as long as no call has failed, key generation is performed at most
\* once per cache key; and the calls for one cache key that have returned
\* all received the same result.
C8_SingleFlight ==
    /\ (\A c \in 1..MaxCalls : calls[c].pc # "failed")
          => \A n \in 1..Len(genLog) : Generations(genLog[n]) <= 1
    /\ \A c, d \in 1..MaxCalls :
          (/\ calls[c].pc = "done" /\ calls[d].pc = "done"
           /\ calls[c].kind = calls[d].kind
           /\ calls[c].id = calls[d].id
           /\ calls[c].scheme = calls[d].scheme)
          => calls[c].result = calls[d].result


\* The ciphertext a successful performHomomorphicOperation returned.
ReturnedCiphertext == deserializeCiphertext(response.value.result).value

\* A ciphertext is exhausted when its noise is above MAX_NOISE_LEVEL.
Exhausted(ct) == "noise" \in DOMAIN ct /\ RLt(MAX_NOISE_LEVEL, ct.noise)

\* performHomomorphicOperation has returned a result to its caller.
OperationReturned ==
    /\ request.handler = "performHomomorphicOperation"
    /\ response.err = "none"

\* C5: with autoBootstrap opted in, a result whose noise exceeds
\* MAX_NOISE_LEVEL is bootstrapped before it is returned or stored as a
\* gate's output binding: no operation run with autoBootstrap returns an
\* exhausted ciphertext, and no wire of a circuit is bound to one.
C5_AutoBootstrapPolicy ==
    /\ (OperationReturned /\ AutoBootstrap(request.operation))
          => ~Exhausted(ReturnedCiphertext)
    /\ exec.pc \in {"gates", "done"}
          => \A w \in DOMAIN exec.wireValues : ~Exhausted(exec.wireValues[w])

\* C6: when the result of an operation has noise above MAX_NOISE_LEVEL and
\* autoBootstrap was not requested, performHomomorphicOperation fails with a
\* NoiseOverflow error; the exhausted ciphertext is not returned as a result.
C6_NoiseOverflowSurfaced ==
    (OperationReturned /\ ~AutoBootstrap(request.operation))
        => ~Exhausted(ReturnedCiphertext)

\* A gate of the running circuit was handed an undefined value for a wire.
GateReadUnboundWire ==
    /\ exec.pc \in {"gates", "failed", "done"}
    /\ \E k \in 1..Len(exec.inputs) : IsUndefined(exec.inputs[k])

\* C7: when executeCircuit reaches a gate whose input wire is not bound, the
\* execution fails with a circuit dependency error.
C7_MissingWireRejected ==
    GateReadUnboundWire
        => (exec.pc = "failed" /\ response.err = "CircuitDependencyError")

\* C9: createFheCircuit rejects a circuit whose computed depth exceeds
\* MAX_CIRCUIT_DEPTH with a CircuitTooDeep error; it returns no circuit id
\* for it.
C9_DepthValidated ==
    (/\ request.handler = "createFheCircuit"
     /\ users[request.userId] # ""
     /\ calculateCircuitDepth(request.circuit) > MAX_CIRCUIT_DEPTH)
        => response.err = "CircuitTooDeep"


\* The unsigned number the four bytes of the buffer from `offset` on spell.
LengthPrefix(buffer, offset) ==
    At(buffer, offset) * 16777216 + At(buffer, offset + 1) * 65536
        + At(buffer, offset + 2) * 256 + At(buffer, offset + 3)

\* Reading the buffer record by record from `offset` on meets a length prefix
\* with fewer than 4 bytes left for it, or one that declares more bytes than
\* remain after it.
RECURSIVE Truncated(_, _)
Truncated(buffer, offset) ==
    IF offset >= Len(buffer) THEN FALSE
    ELSE IF Len(buffer) - offset < 4 THEN TRUE
    ELSE IF offset + 4 + LengthPrefix(buffer, offset) > Len(buffer) THEN TRUE
    ELSE Truncated(buffer, offset + 4 + LengthPrefix(buffer, offset))

\* C11: unpackValues fails, and returns no values, for every buffer in which
\* a length prefix declares more bytes than remain after it or in which
\* fewer than 4 bytes remain for a length prefix.
C11_UnpackRejectsTruncated ==
    (last = "unpackReceived" /\ Truncated(packed, 0))
        => unpacked.err \notin {"none", "diverges"}


\* C12: for every ciphertext c with the properties data, noise, depth, size
\* and bootstrapped, deserializeCiphertext(serializeCiphertext(c)) succeeds
\* and equals c on all five.
C12_SerializeRoundTrip ==
    (IsCt(wireIn) /\ wireOut.err # "unset")
        => /\ wire = serializeCiphertext(wireIn)
           /\ wireOut.err = "none"
           /\ DOMAIN wireOut.value
                 = {"data", "noise", "depth", "size", "bootstrapped"}
           /\ wireOut.value.data = wireIn.data
           /\ REq(wireOut.value.noise, wireIn.noise)
           /\ wireOut.value.depth = wireIn.depth
           /\ wireOut.value.size = wireIn.size
           /\ wireOut.value.bootstrapped = wireIn.bootstrapped

C12_Witness ==
    /\ IsCt(wireIn)
    /\ wireIn.depth = 0
    /\ wireIn.bootstrapped = FALSE
    /\ Len(wireIn.data) = MaxLen
    /\ wireOut.err = "none"
    /\ wireOut.value.depth = 0


\* The five properties a serialized record has to carry.
RequiredFields == {"data", "noise", "depth", "size", "bootstrapped"}

\* The string is no base64, or what it encodes is no JSON, or the record it
\* encodes lacks one of the required properties.
Malformed(str) ==
    \/ ~("base64" \in DOMAIN str)
    \/ ~(RequiredFields \subseteq DOMAIN str.base64)

\* C13: deserializeCiphertext fails with its invalid-format error, and
\* returns no ciphertext, for every input that is no base64, no JSON, or a
\* record that lacks one of data, noise, depth, size and bootstrapped.
C13_DeserializeFailsClosed ==
    (wireOut.err # "unset" /\ Malformed(wire.value))
        => wireOut.err = "Failed to deserialize ciphertext"


\* C14: every ciphertext reached from an encryptValue result with noise 3.2
\* by add, multiply, negate, rotate, relinearize, bootstrap and modulusSwitch
\* has noise >= BASE_NOISE.
C14_NoiseFloor ==
    \A i \in 1..Len(mem.objs) : ~RLt(mem.objs[i].noise, BASE_NOISE)

\* C15: an engine operation leaves each of its operands as it was: the
\* payload, noise, depth, size and bootstrapped flag of every object that
\* existed before the operation are what they were, and the result is a new
\* object.
C15_OperandsUnchanged ==
    opLog.op # "none" =>
        /\ Len(mem.objs) = Len(opLog.before.objs) + 1
        /\ \A i \in 1..Len(opLog.before.objs) :
              View(mem, i) = View(opLog.before, i)

\* An operand was used again after an operation on it: the second operation
\* read the object number 1, which the first had read too.
C15_Witness ==
    /\ Len(mem.objs) = 3
    /\ opLog.op = "negate"
    /\ opLog.operands = <<1>>
    /\ Len(mem.bufs[1]) = MaxLen
    /\ mem.objs[2].data = 1
    /\ View(mem, 1) = View(opLog.before, 1)


\* estimateNoiseGrowth has returned for the operation op.
Estimated(op) == est.operation = op /\ est.value # "unset"

\* C16: for a non-empty list ns of noise levels the estimate is max(ns) + 1.1
\* for add, product(ns) * 2.5 for multiply, max(ns) * 1.2 for rotate and
\* max(ns) for any tag other than these and subtract; it is 15 for
\* (multiply, [2, 3]), 8.1 for (add, [4, 7]) and 6 for (rotate, [5]).
C16_EstimateContract ==
    /\ Estimated("add")
          => REq(est.value, RAdd(RMaxOf(est.inputNoise), <<11, 10>>))
    /\ Estimated("multiply")
          => REq(est.value, RMul(RProduct(est.inputNoise), <<5, 2>>))
    /\ Estimated("rotate")
          => REq(est.value, RMul(RMaxOf(est.inputNoise), <<6, 5>>))
    /\ (est.operation \in {"negate", "bootstrap", "divide"}
        /\ est.value # "unset")
          => REq(est.value, RMaxOf(est.inputNoise))
    /\ (Estimated("multiply") /\ est.inputNoise = <<<<2, 1>>, <<3, 1>>>>)
          => REq(est.value, <<15, 1>>)
    /\ (Estimated("add") /\ est.inputNoise = <<<<4, 1>>, <<7, 1>>>>)
          => REq(est.value, <<81, 10>>)
    /\ (Estimated("rotate") /\ est.inputNoise = <<<<5, 1>>>>)
          => REq(est.value, <<6, 1>>)

C16_Witness ==
    /\ Estimated("rotate")
    /\ est.inputNoise = <<<<5, 1>>>>
    /\ est.value = <<6, 1>>

\* C17: for a non-empty list ns of noise levels the estimate for subtract is
\* max(ns) + 1.1, the same as for add.
C17_EstimateSubtract ==
    Estimated("subtract")
        => /\ REq(est.value, RAdd(RMaxOf(est.inputNoise), <<11, 10>>))
           /\ REq(est.value, estimateNoiseGrowthOf("add", est.inputNoise))


\* createFheCircuit has compiled the circuit of the request.
Compiled ==
    /\ request.handler = "createFheCircuit"
    /\ response.err = "none"

\* The wires a sequence of names holds.
Wires(names) == {names[k] : k \in 1..Len(names)}

\* Every gate has an input, and each input is a declared input of the
\* circuit or the output of a gate before it in the list.
WellFormed(circuit) ==
    \A g \in 1..Len(circuit.gates) :
        /\ Len(circuit.gates[g].inputs) > 0
        /\ Wires(circuit.gates[g].inputs) \subseteq
              Wires(circuit.inputs)
                 \cup {circuit.gates[k].output : k \in 1..(g - 1)}

\* The greatest number of a non-empty set of numbers.
SetMax(S) == CHOOSE x \in S : \A y \in S : y <= x

\* The depth of the wire w before the gate number g: that of the last gate
\* before g whose output it is, and 0 for a declared input.
WireDepthBefore(circuit, gateDepths, g, w) ==
    LET writers == {k \in 1..(g - 1) : circuit.gates[k].output = w}
    IN  IF writers = {} THEN 0 ELSE gateDepths[SetMax(writers)]

\* The depths of the first g gates: max(input depths) + 1 for a multiply
\* gate, max(input depths) for any other.
RECURSIVE GateDepths(_, _)
GateDepths(circuit, g) ==
    IF g = 0 THEN <<>>
    ELSE CHOOSE r \in
            {Append(before,
                    SetMax({WireDepthBefore(circuit, before, g, w) :
                               w \in Wires(circuit.gates[g].inputs)})
                    + (IF circuit.gates[g].operation = "multiply"
                       THEN 1 ELSE 0)) :
                before \in {GateDepths(circuit, g - 1)}} : TRUE

\* C18: the depth createFheCircuit's plan records is the greatest gate
\* depth, a gate's depth being max(input depths) + 1 for a multiply gate and
\* max(input depths) otherwise, with depth 0 for the declared inputs; a
\* single add gate gives 0, a single multiply gate 1, two chained multiply
\* gates 2.
C18_CircuitDepth ==
    (Compiled /\ WellFormed(request.circuit)) =>
        /\ response.stored.depth
              = SetMax(Wires(GateDepths(request.circuit,
                                        Len(request.circuit.gates))) \cup {0})
        /\ request.circuit = loadCircuitDefinition("any")
              => response.stored.depth = 0
        /\ request.circuit = MultiplyChain(1) => response.stored.depth = 1
        /\ request.circuit = MultiplyChain(2) => response.stored.depth = 2

C18_Witness ==
    /\ Compiled
    /\ request.circuit = MultiplyChain(2)
    /\ response.stored.depth = 2


\* The operations the service knows.
SupportedOperations ==
    {"add", "multiply", "subtract", "negate", "rotate", "bootstrap"}

\* C19: createFheCircuit rejects a circuit that has a gate with an operation
\* the service does not know with an unsupported-operation error, and a
\* request for such an operation fails with that error and returns no
\* result.
C19_UnsupportedRejected ==
    /\ (/\ request.handler = "createFheCircuit"
        /\ users[request.userId] # ""
        /\ \E g \in 1..Len(request.circuit.gates) :
              request.circuit.gates[g].operation \notin SupportedOperations)
          => response.err = "Unsupported operation"
    /\ (/\ request.handler = "performHomomorphicOperation"
        /\ response.err # "unset"
        /\ request.operation.type \notin SupportedOperations)
          => response.err # "none"

\* The request asks for an addition of fewer than 2 inputs or a subtraction
\* of a number of inputs other than 2.
ArityViolation ==
    /\ request.handler = "performHomomorphicOperation"
    /\ response.err # "unset"
    /\ \/ request.operation.type = "add" /\ Len(request.operation.inputs) < 2
       \/ request.operation.type = "subtract"
             /\ Len(request.operation.inputs) # 2

UnproducedOutputs(circuit) ==
    Wires(circuit.outputs)
       \ (Wires(circuit.inputs)
             \cup {circuit.gates[g].output : g \in 1..Len(circuit.gates)})

\* C21: when executeCircuit has run all gates, every wire named in the
\* circuit's outputs is bound to a ciphertext; and createFheCircuit rejects
\* a circuit with an output wire that no input or gate produces: it returns
\* no circuit id for it.
C21_OutputsBound ==
    /\ exec.pc = "done"
          => \A w \in Wires(loadCircuitDefinition("any").outputs) :
                /\ Has(exec.wireValues, w)
                /\ IsCt(exec.wireValues[w])
    /\ (/\ request.handler = "createFheCircuit"
        /\ users[request.userId] # ""
        /\ UnproducedOutputs(request.circuit) # {})
          => response.err # "none"


\* a mod n for n > 0: the remainder in 0..(n - 1), also for a negative a.
Mod(a, n) == IF a >= 0 THEN a % n ELSE (n - ((0 - a) % n)) % n

\* The operand of the last operation, and the object it returned.
Operand == View(opLog.before, opLog.operands[1])

Returned == View(mem, Len(mem.objs))

\* C22: for a ciphertext a with a non-empty payload and any integer amount,
\* negative ones and ones of the payload's length or more included,
\* rotate(a, amount) returns a payload of the same length that is a's bytes
\* shifted cyclically by amount mod len(payload), with noise a.noise * 1.2
\* and with a's depth and size.
C22_RotateContract ==
    (opLog.op = "rotate" /\ Len(Operand.data) > 0) =>
        /\ Len(Returned.data) = Len(Operand.data)
        /\ \A i \in 0..(Len(Operand.data) - 1) :
              At(Returned.data, Mod(i + opLog.amount, Len(Operand.data)))
                 = At(Operand.data, i)
        /\ REq(Returned.noise, RMul(Operand.noise, <<12, 10>>))
        /\ Returned.depth = Operand.depth
        /\ Returned.size = Operand.size


\* C23: no public operation goes on to use the engine instance while
\* initializeFheSystem has failed or has not completed: a caller that has
\* called the engine found the start-up completed.
C23_InitGuard ==
    \A c \in 1..MaxCalls :
        boot.callers[c].pc = "usedEngine"
            => boot.callers[c].initWas = "initialized"


\* The time to live of the entries of the cache a call of this kind reads.
TimeToLive(kind) ==
    IF kind = "keys" THEN KEY_CACHE_TTL ELSE BOOTSTRAP_KEY_CACHE_TTL

\* C24: a key-cache entry is not served once more than KEY_CACHE_TTL (one
\* hour) has passed since its insertion, nor a bootstrapping-key cache entry
\* once more than BOOTSTRAP_KEY_CACHE_TTL (two hours) has passed: no call is
\* served a cache entry older than the time to live of its cache.
C24_CacheExpiry ==
    \A c \in 1..MaxCalls :
        (calls[c].pc = "done" /\ calls[c].servedAge # -1)
            => calls[c].servedAge <= TimeToLive(calls[c].kind)


\* performHomomorphicOperation has returned the result of a multiplication.
MultiplyReturned ==
    /\ OperationReturned
    /\ request.operation.type = "multiply"

\* The ciphertexts the request of the operation carried.
RequestInputs == DeserializeInputs(request.operation.inputs).value

\* The accumulator of performMultiplication as it enters the multiplication
\* by the input number i (1-based, i >= 2).
AccumulatorEntering(inputs, i) ==
    MultiplicationLoop(SubSeq(inputs, 1, i - 1), 2, inputs[1])

\* C25: in performMultiplication over n >= 2 inputs of size 2 or 3, a
\* product of size above 3 is relinearized to size 2 before the next
\* multiplication: the accumulator entering every multiplication and the
\* ciphertext returned have size at most 3, and the ciphertext returned has
\* size 2 when every input has size 2.
C25_RelinearizedChain ==
    MultiplyReturned =>
        /\ \A i \in 2..Len(RequestInputs) :
              AccumulatorEntering(RequestInputs, i).size <= 3
        /\ ReturnedCiphertext.size <= 3
        /\ (\A k \in 1..Len(RequestInputs) : RequestInputs[k].size = 2)
              => ReturnedCiphertext.size = 2

\* A chain of more than one multiplication, over inputs of size 3, has
\* returned a ciphertext of size 2.
C25_Witness ==
    /\ MultiplyReturned
    /\ Len(RequestInputs) = MaxInputs + 1
    /\ RequestInputs[1].size = 3
    /\ ReturnedCiphertext.size = 2


\* Every entry of the Map `before` is in the Map `after` with the same value.
Keeps(before, after) ==
    \A k \in DOMAIN before : k \in DOMAIN after /\ after[k] = before[k]

\* C26: once the key cache or the bootstrapping-key cache holds a value for
\* a cache key, no later step of any call, of the calls already in flight
\* when the entry was inserted included, replaces it with another value.
C26_EntriesStable ==
    [][Keeps(keyCache, keyCache')
       /\ Keeps(bootstrappingKeys, bootstrappingKeys')]_vars


\* s is an initial part of t.
IsPrefix(s, t) == Len(s) <= Len(t) /\ s = SubSeq(t, 1, Len(s))

\* What a complete getOrGenerateKeys may have done: served from the cache;
\* after a cache miss, served by the custodian; after both missed,
\* generated, persisted and only then inserted.
LookupsServed ==
    {<<"cacheHit">>,
     <<"cacheMiss", "custodianHit", "insert">>,
     <<"cacheMiss", "custodianMiss", "generate", "persist", "insert">>}

\* What a getOrGenerateKeys did whose persistence failed.
LookupFailed == <<"cacheMiss", "custodianMiss", "generate", "persistFailed">>

\* C27: getOrGenerateKeys consults the cache first, the custodian only on a
\* cache miss, and generates a key pair only when both miss; a generated
\* key pair is persisted through the custodian before it is inserted into
\* the cache, and when the persistence fails the cache does not get it.
C27_LookupOrder ==
    \A c \in 1..MaxCalls :
        calls[c].kind = "keys" =>
            /\ \E whole \in LookupsServed \cup {LookupFailed} :
                  IsPrefix(calls[c].log, whole)
            /\ calls[c].pc = "done" => calls[c].log \in LookupsServed
            /\ calls[c].pc = "failed" =>
                  /\ calls[c].log = LookupFailed
                  /\ \A k \in DOMAIN keyCache : keyCache[k] # calls[c].tmp

\* One call failed to persist its key pair and the cache was left without
\* it; the other then missed the cache and the custodian, generated,
\* persisted and inserted its own.
C27_Witness ==
    \E c, d \in 1..MaxCalls :
        /\ calls[c].kind = "keys" /\ calls[c].pc = "failed"
        /\ calls[d].kind = "keys" /\ calls[d].pc = "done"
        /\ calls[d].log
              = <<"cacheMiss", "custodianMiss", "generate", "persist", "insert">>
        /\ keyCache[CacheKey(calls[d].id, calls[d].scheme)] = calls[d].result
        /\ keyStore[calls[d].id] = StoredRow(calls[d].id, calls[d].result)


\* The scheme a cache key was made for.
SchemeOf(cacheKey) == cacheKey[3]

\* C28: the key pair getOrGenerateKeys(identity, scheme) returns, and every
\* entry of the key cache under (identity, scheme), has the requested scheme
\* as its scheme, also when the identity has keys persisted for another
\* scheme.
C28_SchemeConsistent ==
    /\ \A k \in DOMAIN keyCache : keyCache[k].scheme = SchemeOf(k)
    /\ \A c \in 1..MaxCalls :
          (calls[c].kind = "keys" /\ calls[c].pc = "done")
              => calls[c].result.scheme = calls[c].scheme


\* The identity a cache key of the key cache was made for; the evaluation
\* key a cache key of the bootstrapping-key cache was made for.
IdentityOf(cacheKey) == cacheKey[1]

\* executeCircuit is being served, or was the last request served, for a
\* user that has a wallet.
CircuitFor(walletAddress) ==
    /\ request.handler = "executeCircuit"
    /\ walletAddress = users[request.userId]
    /\ walletAddress # ""

\* C29: every gate executeCircuit runs for the user U is evaluated with the
\* evaluation key fetched for U: the execution looks up and generates keys
\* for no identity other than U, the bootstrapping keys it uses belong to
\* an evaluation key of U, and it does not fail because another identity
\* is unknown.
C29_CallerKey ==
    \A walletAddress \in {users[u] : u \in DOMAIN users} :
        CircuitFor(walletAddress) =>
            /\ response.err # "User wallet not found"
            /\ \A k \in DOMAIN keyCache : IdentityOf(k) = walletAddress
            /\ \A w \in DOMAIN keyStore : w = walletAddress
            /\ \A b \in DOMAIN bootstrappingKeys :
                  \E k \in DOMAIN keyCache :
                      /\ IdentityOf(k) = walletAddress
                      /\ keyCache[k].evaluationKey = IdentityOf(b)


\* The bytes `after` are the bytes `before` shifted cyclically by amount.
ShiftedBy(before, after, amount) ==
    /\ Len(after) = Len(before)
    /\ \A i \in 0..(Len(before) - 1) :
          At(after, Mod(i + amount, Len(before))) = At(before, i)

\* The gate executeCircuit ran last.
LastGate ==
    exec.circuit.gates[IF exec.pc = "done" THEN Len(exec.circuit.gates)
                       ELSE exec.gate - 1]

\* C30: the shift a rotate operation applies is the amount the caller
\* supplied: rotationAmount for a direct operation, so that rotationAmount
\* = 0 returns the payload unchanged, and the amount in the gate's
\* parameters for a rotate gate run inside a circuit.
C30_RotationAmountHonoured ==
    /\ (/\ OperationReturned
        /\ request.operation.type = "rotate"
        /\ "rotationAmount" \in DOMAIN request.operation)
          => ShiftedBy(RequestInputs[1].data, ReturnedCiphertext.data,
                       request.operation.rotationAmount)
    /\ (/\ exec.pc = "done"
        /\ LastGate.operation = "rotate"
        /\ "parameters" \in DOMAIN LastGate)
          => ShiftedBy(exec.inputs[1].data,
                       exec.wireValues[LastGate.output].data,
                       LastGate.parameters.rotationAmount)

=============================================================================
